---- MODULE Spec2Model ----
(***************************************************************************)
(* BookBot recommendation pipeline (src/bookbot): tolerant parsing of the  *)
(* model's raw text, per-item and batch validation, exclusion filtering,   *)
(* and the bounded-retry orchestrators of cli.py, web.py and scheduler.py, *)
(* together with the module-level active language of i18n.py.              *)
(*                                                                         *)
(* Text is a sequence of symbols.  A symbol is a TLA+ string standing for  *)
(* a run of characters that the regular expressions and the JSON decoder   *)
(* of the source treat as a unit: a bracket, a quote, a code fence, one    *)
(* whitespace character, one letter, a numeral, a word.                    *)
(***************************************************************************)
EXTENDS Integers, Sequences, FiniteSets, TLC

\* ------------------------------------------------------------------------
\* Symbols and Python string operations
\* ------------------------------------------------------------------------
\* The three-backtick code fence marker.
FENCE == "FENCE"

QUOTE == "\""

Whitespace == {" ", "\n"}

IntNumerals == {"0", "7", "1300", "1449", "1450", "1925", "1999", "2026", "2027", "2100"}

FloatNumerals == {"1449.5", "1999.5", "2026.5", "Infinity", "NaN"}

\* The integer a numeral of IntNumerals denotes.
IntOfNumeral(sym) ==
    CASE sym = "0" -> 0
      [] sym = "7" -> 7
      [] sym = "1300" -> 1300
      [] sym = "1449" -> 1449
      [] sym = "1450" -> 1450
      [] sym = "1925" -> 1925
      [] sym = "1999" -> 1999
      [] sym = "2026" -> 2026
      [] sym = "2027" -> 2027
      [] sym = "2100" -> 2100

\* int(x) of a finite float: truncation toward zero.
TruncOfNumeral(sym) ==
    CASE sym = "1449.5" -> 1449
      [] sym = "1999.5" -> 1999
      [] sym = "2026.5" -> 2026

\* Number of characters a symbol stands for.
Width(sym) ==
    CASE sym = FENCE -> 3
      [] sym \in IntNumerals -> IF sym \in {"0", "7"} THEN 1 ELSE 4
      [] sym \in {"1449.5", "1999.5", "2026.5"} -> 6
      [] sym = "Infinity" -> 8
      [] sym = "NaN" -> 3
      [] sym = "json" -> 4
      [] sym = "null" -> 4
      [] sym = "true" -> 4
      [] sym = "Sure" -> 4
      [] sym = "title" -> 5
      [] sym = "author" -> 6
      [] sym = "publication_year" -> 16
      [] sym = "explanation" -> 11
      [] sym = "recommendations" -> 15
      [] sym = "lorem9" -> 9
      [] sym = "lorem1000" -> 1000
      [] OTHER -> 1

RECURSIVE py_len(_)
\* len(s) of a Python str.
py_len(s) ==
    IF s = <<>> THEN 0 ELSE Width(Head(s)) + py_len(Tail(s))

RECURSIVE lstrip(_)
lstrip(s) ==
    IF s # <<>> /\ Head(s) \in Whitespace THEN lstrip(Tail(s)) ELSE s

RECURSIVE rstrip(_)
rstrip(s) ==
    IF s # <<>> /\ s[Len(s)] \in Whitespace
    THEN rstrip(SubSeq(s, 1, Len(s) - 1))
    ELSE s

\* str.strip()
strip(s) ==
    rstrip(lstrip(s))

LowerSym(sym) ==
    CASE sym = "A" -> "a"
      [] sym = "B" -> "b"
      [] sym = "C" -> "c"
      [] sym = "Sure" -> "sure"
      [] OTHER -> sym

\* str.lower()
lower(s) ==
    [i \in 1..Len(s) |-> LowerSym(s[i])]

\* First index j >= i of txt that holds no whitespace (Len(txt)+1 if none).
RECURSIVE SkipWs(_, _)
SkipWs(txt, i) ==
    IF i <= Len(txt) /\ txt[i] \in Whitespace THEN SkipWs(txt, i + 1) ELSE i

\* ------------------------------------------------------------------------
\* JSON values as Python holds them after json.loads
\* ------------------------------------------------------------------------
\* A value is the pair <<kind, payload>>; equality of two values compares
\* the kinds first.
JNull == <<"null", 0>>

JBool(b) == <<"bool", b>>

JInt(n) == <<"int", n>>

JFloat(sym) == <<"float", sym>>

JStr(s) == <<"str", s>>

JArr(seq) == <<"arr", seq>>

JObj(f) == <<"obj", f>>

Kind(x) == x[1]

Val(x) == x[2]

EmptyDict == [x \in {} |-> JNull]

\* d[key] = val on a dict: a later duplicate key overwrites.
DictSet(d, key, val) ==
    (key :> val) @@ d

\* ------------------------------------------------------------------------
\* json.loads (strict mode)
\* ------------------------------------------------------------------------
Fail == [ok |-> FALSE, val |-> JNull, pos |-> 0]

Ok(val, pos) == [ok |-> TRUE, val |-> val, pos |-> pos]

\* Index of the first QUOTE at or after i (0 if none).
RECURSIVE FindQuote(_, _)
FindQuote(txt, i) ==
    IF i > Len(txt) THEN 0
    ELSE IF txt[i] = QUOTE THEN i
    ELSE FindQuote(txt, i + 1)

\* A string literal starting at txt[i] = QUOTE.  Strict mode rejects a raw
\* control character (a newline) inside the literal.
ParseString(txt, i) ==
    LET j == FindQuote(txt, i + 1) IN
    IF j = 0 THEN Fail
    ELSE LET body == SubSeq(txt, i + 1, j - 1) IN
         IF \E n \in 1..Len(body) : body[n] = "\n" THEN Fail
         ELSE Ok(JStr(body), j + 1)

RECURSIVE ParseValue(_, _)
RECURSIVE ParseMembers(_, _, _)
RECURSIVE ParseElements(_, _, _)

\* Members of an object from position i (past whitespace), acc the dict so far.
ParseMembers(txt, i, acc) ==
    IF i > Len(txt) \/ txt[i] # QUOTE THEN Fail
    ELSE LET key == ParseString(txt, i) IN
         IF ~key.ok THEN Fail
         ELSE LET c == SkipWs(txt, key.pos) IN
              IF c > Len(txt) \/ txt[c] # ":" THEN Fail
              ELSE LET val == ParseValue(txt, SkipWs(txt, c + 1)) IN
                   IF ~val.ok THEN Fail
                   ELSE LET e == SkipWs(txt, val.pos)
                            d == DictSet(acc, Val(key.val), val.val)
                        IN  IF e > Len(txt) THEN Fail
                            ELSE IF txt[e] = "}" THEN Ok(JObj(d), e + 1)
                            ELSE IF txt[e] = "," THEN ParseMembers(txt, SkipWs(txt, e + 1), d)
                            ELSE Fail

\* Elements of an array from position i (past whitespace), acc the list so far.
ParseElements(txt, i, acc) ==
    LET val == ParseValue(txt, i) IN
    IF ~val.ok THEN Fail
    ELSE LET e == SkipWs(txt, val.pos)
             l == Append(acc, val.val)
         IN  IF e > Len(txt) THEN Fail
             ELSE IF txt[e] = "]" THEN Ok(JArr(l), e + 1)
             ELSE IF txt[e] = "," THEN ParseElements(txt, SkipWs(txt, e + 1), l)
             ELSE Fail

\* One JSON value starting at position i (past whitespace).
ParseValue(txt, i) ==
    IF i > Len(txt) THEN Fail
    ELSE LET s == txt[i] IN
         CASE s = QUOTE -> ParseString(txt, i)
           [] s = "{" ->
                LET j == SkipWs(txt, i + 1) IN
                IF j <= Len(txt) /\ txt[j] = "}" THEN Ok(JObj(EmptyDict), j + 1)
                ELSE ParseMembers(txt, j, EmptyDict)
           [] s = "[" ->
                LET j == SkipWs(txt, i + 1) IN
                IF j <= Len(txt) /\ txt[j] = "]" THEN Ok(JArr(<<>>), j + 1)
                ELSE ParseElements(txt, j, <<>>)
           [] s \in IntNumerals -> Ok(JInt(IntOfNumeral(s)), i + 1)
           [] s \in FloatNumerals -> Ok(JFloat(s), i + 1)
           [] s = "null" -> Ok(JNull, i + 1)
           [] s = "true" -> Ok(JBool(TRUE), i + 1)
           [] OTHER -> Fail

\* json.loads(txt): one value, whitespace around it, nothing else.
\* ok = FALSE stands for JSONDecodeError.
json_loads(txt) ==
    LET r == ParseValue(txt, SkipWs(txt, 1)) IN
    IF r.ok /\ SkipWs(txt, r.pos) = Len(txt) + 1 THEN r ELSE Fail

\* ------------------------------------------------------------------------
\* parse_llm_output
\* ------------------------------------------------------------------------
\* Last index j <= i of txt that holds no whitespace (0 if none).
RECURSIVE SkipWsBack(_, _)
SkipWsBack(txt, i) ==
    IF i >= 1 /\ txt[i] \in Whitespace THEN SkipWsBack(txt, i - 1) ELSE i

\* txt without the symbols at the indices of drop, between lo and hi.
RECURSIVE Without(_, _, _, _)
Without(txt, drop, lo, hi) ==
    IF lo > hi THEN <<>>
    ELSE IF lo = hi THEN (IF lo \in drop THEN <<>> ELSE <<txt[lo]>>)
    ELSE LET mid == (lo + hi) \div 2 IN
         Without(txt, drop, lo, mid) \o Without(txt, drop, mid + 1, hi)

\* txt[i] is a fence marker or the "json" tag right after one.
IsFenceTag(txt, i) ==
    /\ i >= 1
    /\ \/ txt[i] = FENCE
       \/ txt[i] = "json" /\ i > 1 /\ txt[i - 1] = FENCE

\* re.sub(r"FENCE(?:json)?\s*", "", raw): every fence marker goes, with the
\* tag "json" right after it and the run of whitespace that follows.
SubFenceTag(txt) ==
    LET drop == {i \in 1..Len(txt) :
                    \/ IsFenceTag(txt, i)
                    \/ txt[i] \in Whitespace /\ IsFenceTag(txt, SkipWsBack(txt, i))}
    IN  Without(txt, drop, 1, Len(txt))

\* re.sub(r"FENCE", "", cleaned)
SubFence(txt) ==
    SelectSeq(txt, LAMBDA s : s # FENCE)

\* StripFences that drops each fence marker with the rest of its line.
StripFencesToLineEnd(raw) ==
    LET fenceBefore(i) ==
            \E f \in 1..i : raw[f] = FENCE /\ \A n \in f..i : raw[n] # "\n"
    IN  strip(SelectSeq([i \in 1..Len(raw) |-> IF fenceBefore(i) THEN FENCE ELSE raw[i]],
                        LAMBDA sym : sym # FENCE))

\* Step 1: strip markdown code fences.
StripFences(raw) ==
    strip(SubFence(SubFenceTag(raw)))

\* BraceSpan with a lazy quantifier: from the first "{" to the first "}".
BraceSpanLazy(txt) ==
    LET opens == {i \in 1..Len(txt) : txt[i] = "{"}
        closes == {i \in 1..Len(txt) : txt[i] = "}"}
    IN  IF opens = {} THEN <<>>
        ELSE LET a == CHOOSE i \in opens : \A j \in opens : i <= j
                 after == {i \in closes : i > a}
             IN  IF after = {} THEN <<>>
                 ELSE SubSeq(txt, a, CHOOSE i \in after : \A j \in after : i <= j)

\* re.search(r"\{.*\}", cleaned, re.DOTALL): the span from the first "{" to
\* the last "}" after it; <<>> stands for no match.
BraceSpan(txt) ==
    LET opens == {i \in 1..Len(txt) : txt[i] = "{"}
        closes == {i \in 1..Len(txt) : txt[i] = "}"}
    IN  IF opens = {} THEN <<>>
        ELSE LET a == CHOOSE i \in opens : \A j \in opens : i <= j
                 after == {i \in closes : i > a}
             IN  IF after = {} THEN <<>>
                 ELSE SubSeq(txt, a, CHOOSE i \in after : \A j \in after : j <= i)

\* re.sub(r",\s*([}\]])", r"\1", attempt): a comma whose next symbol past
\* whitespace is a closing bracket goes, with that whitespace.
SubTrailingCommas(txt) ==
    LET closes(i) == LET j == SkipWs(txt, i) IN j <= Len(txt) /\ txt[j] \in {"}", "]"}
        drop == {i \in 1..Len(txt) :
                    \/ txt[i] = "," /\ closes(i + 1)
                    \/ /\ txt[i] \in Whitespace
                       /\ SkipWsBack(txt, i) >= 1
                       /\ txt[SkipWsBack(txt, i)] = ","
                       /\ closes(i)}
    IN  Without(txt, drop, 1, Len(txt))

ParseNone == [ok |-> FALSE, val |-> JNull]

IsDict(r) == r.ok /\ Kind(r.val) = "obj"

\* parse_llm_output that tries the comma-repaired span before the other
\* two stages.
parse_llm_output_repair_first(raw) ==
    LET cleaned == StripFences(raw)
        direct == json_loads(cleaned)
        span == BraceSpan(cleaned)
        block == json_loads(span)
        repaired == json_loads(SubTrailingCommas(span))
    IN  IF span # <<>> /\ IsDict(repaired) THEN [ok |-> TRUE, val |-> repaired.val]
        ELSE IF IsDict(direct) THEN [ok |-> TRUE, val |-> direct.val]
        ELSE IF span # <<>> /\ IsDict(block) THEN [ok |-> TRUE, val |-> block.val]
        ELSE ParseNone

\* parse_llm_output(raw): ok = FALSE stands for None.
parse_llm_output(raw) ==
    LET cleaned == StripFences(raw)
        direct == json_loads(cleaned)
        span == BraceSpan(cleaned)
        block == json_loads(span)
        repaired == json_loads(SubTrailingCommas(span))
    IN  IF IsDict(direct) THEN [ok |-> TRUE, val |-> direct.val]
        ELSE IF span # <<>> /\ IsDict(block) THEN [ok |-> TRUE, val |-> block.val]
        ELSE IF span # <<>> /\ IsDict(repaired) THEN [ok |-> TRUE, val |-> repaired.val]
        ELSE ParseNone

\* ------------------------------------------------------------------------
\* validate_recommendation / validate_recommendations
\* ------------------------------------------------------------------------
MIN_YEAR == 1450

MAX_YEAR == 2026

MIN_EXPLANATION == 10

MAX_EXPLANATION == 1000

MIN_RECS == 3

MAX_RECS == 5

REQUIRED_FIELDS == <<"title", "author", "publication_year", "explanation">>

\* The dict key / str value spelled by one word.
Word(w) == <<w>>

\* `field in rec` for the Python value rec: "True", "False" or "TypeError".
\* A dict tests its keys, a str tests for a substring, a list tests its
\* elements for equality; a number, a bool and None are not iterable.
Contains(rec, field) ==
    CASE Kind(rec) = "obj" -> IF Word(field) \in DOMAIN Val(rec) THEN "True" ELSE "False"
      [] Kind(rec) = "str" -> IF \E i \in 1..Len(Val(rec)) : Val(rec)[i] = field THEN "True" ELSE "False"
      [] Kind(rec) = "arr" -> IF \E i \in 1..Len(Val(rec)) : Val(rec)[i] = JStr(Word(field))
                          THEN "True" ELSE "False"
      [] OTHER -> "TypeError"

\* isinstance(x, str) and x.strip() is non-empty
NonEmptyStr(x) ==
    Kind(x) = "str" /\ strip(Val(x)) # <<>>

\* int(x): st is "ok" (n the integer) or the exception raised.
py_int(x) ==
    CASE Kind(x) = "int" -> [st |-> "ok", n |-> Val(x)]
      [] Kind(x) = "bool" -> [st |-> "ok", n |-> IF Val(x) THEN 1 ELSE 0]
      [] Kind(x) = "float" ->
            IF Val(x) = "Infinity" THEN [st |-> "OverflowError", n |-> 0]
            ELSE IF Val(x) = "NaN" THEN [st |-> "ValueError", n |-> 0]
            ELSE [st |-> "ok", n |-> TruncOfNumeral(Val(x))]
      [] Kind(x) = "str" ->
            LET s == strip(Val(x)) IN
            IF Len(s) = 1 /\ s[1] \in IntNumerals
            THEN [st |-> "ok", n |-> IntOfNumeral(s[1])]
            ELSE [st |-> "ValueError", n |-> 0]
      [] OTHER -> [st |-> "TypeError", n |-> 0]

\* ValidateFields with the lower year bound tested with <= instead of <.
ValidateFieldsStrict(rec) ==
    LET title == Val(rec)[Word("title")]
        author == Val(rec)[Word("author")]
        explanation == Val(rec)[Word("explanation")]
        year == py_int(Val(rec)[Word("publication_year")])
    IN  IF ~NonEmptyStr(title) THEN "False"
        ELSE IF ~NonEmptyStr(author) THEN "False"
        ELSE IF ~NonEmptyStr(explanation) THEN "False"
        ELSE IF year.st \in {"ValueError", "TypeError"} THEN "False"
        ELSE IF year.st # "ok" THEN "raise"
        ELSE IF year.n <= MIN_YEAR \/ year.n > MAX_YEAR THEN "False"
        ELSE IF py_len(Val(explanation)) < MIN_EXPLANATION
                \/ py_len(Val(explanation)) > MAX_EXPLANATION THEN "False"
        ELSE "True"

\* The checks of a dict that holds all four fields.
ValidateFields(rec) ==
    LET title == Val(rec)[Word("title")]
        author == Val(rec)[Word("author")]
        explanation == Val(rec)[Word("explanation")]
        year == py_int(Val(rec)[Word("publication_year")])
    IN  IF ~NonEmptyStr(title) THEN "False"
        ELSE IF ~NonEmptyStr(author) THEN "False"
        ELSE IF ~NonEmptyStr(explanation) THEN "False"
        ELSE IF year.st \in {"ValueError", "TypeError"} THEN "False"
        ELSE IF year.st # "ok" THEN "raise"
        ELSE IF year.n < MIN_YEAR \/ year.n > MAX_YEAR THEN "False"
        ELSE IF py_len(Val(explanation)) < MIN_EXPLANATION
                \/ py_len(Val(explanation)) > MAX_EXPLANATION THEN "False"
        ELSE "True"

\* validate_recommendation(rec, prefs): "True", "False", or "raise" when an
\* exception leaves the function.
validate_recommendation(rec) ==
    LET has == [i \in 1..Len(REQUIRED_FIELDS) |-> Contains(rec, REQUIRED_FIELDS[i])] IN
    IF has[1] = "TypeError" THEN "raise"
    ELSE IF \E i \in 1..Len(REQUIRED_FIELDS) : has[i] = "False" THEN "False"
    ELSE IF Kind(rec) # "obj" THEN "raise"
    ELSE ValidateFields(rec)

\* r["title"].strip().lower()
TitleKey(r) ==
    lower(strip(Val(Val(r)[Word("title")])))

\* Dedup with the title compared as written, not trimmed and lowered.
RECURSIVE DedupExact(_, _, _)
DedupExact(valid, seen, deduped) ==
    IF valid = <<>> THEN deduped
    ELSE LET r == Head(valid)
             key == Val(Val(r)[Word("title")])
         IN  IF key \notin seen
             THEN DedupExact(Tail(valid), seen \cup {key}, Append(deduped, r))
             ELSE DedupExact(Tail(valid), seen, deduped)

\* The duplicate-title loop: keeps the first item of each key.
RECURSIVE Dedup(_, _, _)
Dedup(valid, seen, deduped) ==
    IF valid = <<>> THEN deduped
    ELSE LET r == Head(valid)
             key == TitleKey(r)
         IN  IF key \notin seen
             THEN Dedup(Tail(valid), seen \cup {key}, Append(deduped, r))
             ELSE Dedup(Tail(valid), seen, deduped)

\* Take without the slice.
TakeAll(s, n) ==
    s

\* recs[:n]
Take(s, n) ==
    SubSeq(s, 1, IF Len(s) < n THEN Len(s) ELSE n)

RetNone == [st |-> "None", recs |-> <<>>]

RetRaise == [st |-> "raise", recs |-> <<>>]

RetList(l) == [st |-> "list", recs |-> l]

\* validate_recommendations that stores the parsed year in the item.
validate_recommendations_coerce_year(parsed) ==
    IF Word("recommendations") \notin DOMAIN Val(parsed) THEN RetNone
    ELSE LET got == Val(parsed)[Word("recommendations")] IN
         IF Kind(got) # "arr" THEN RetNone
         ELSE LET recs == Take(Val(got), MAX_RECS)
                  verdict == [i \in 1..Len(recs) |-> validate_recommendation(recs[i])]
              IN  IF \E i \in 1..Len(recs) : verdict[i] = "raise" THEN RetRaise
                  ELSE LET valid == SelectSeq(recs, LAMBDA r : validate_recommendation(r) = "True")
                           deduped == Dedup(valid, {}, <<>>)
                           coerced ==
                               [i \in 1..Len(deduped) |->
                                   JObj(DictSet(Val(deduped[i]), Word("publication_year"),
                                                JInt(py_int(Val(deduped[i])[Word("publication_year")]).n)))]
                       IN  IF Len(deduped) < MIN_RECS THEN RetNone
                           ELSE RetList(Take(coerced, MAX_RECS))

\* validate_recommendations that validates every candidate and only cuts
\* the final list to MAX_RECS.
validate_recommendations_truncate_late(parsed) ==
    IF Word("recommendations") \notin DOMAIN Val(parsed) THEN RetNone
    ELSE LET got == Val(parsed)[Word("recommendations")] IN
         IF Kind(got) # "arr" THEN RetNone
         ELSE LET recs == Val(got)
                  verdict == [i \in 1..Len(recs) |-> validate_recommendation(recs[i])]
              IN  IF \E i \in 1..Len(recs) : verdict[i] = "raise" THEN RetRaise
                  ELSE LET valid == SelectSeq(recs, LAMBDA r : validate_recommendation(r) = "True")
                           deduped == Dedup(valid, {}, <<>>)
                       IN  IF Len(deduped) < MIN_RECS THEN RetNone
                           ELSE RetList(Take(deduped, MAX_RECS))

\* validate_recommendations(parsed, prefs) for a parsed dict: st is "list"
\* (recs the returned list), "None", or "raise" when an exception leaves it.
validate_recommendations(parsed) ==
    IF Word("recommendations") \notin DOMAIN Val(parsed) THEN RetNone
    ELSE LET got == Val(parsed)[Word("recommendations")] IN
         IF Kind(got) # "arr" THEN RetNone
         ELSE LET recs == Take(Val(got), MAX_RECS)
                  verdict == [i \in 1..Len(recs) |-> validate_recommendation(recs[i])]
              IN  IF \E i \in 1..Len(recs) : verdict[i] = "raise" THEN RetRaise
                  ELSE LET valid == SelectSeq(recs, LAMBDA r : validate_recommendation(r) = "True")
                           deduped == Dedup(valid, {}, <<>>)
                       IN  IF Len(deduped) < MIN_RECS THEN RetNone
                           ELSE RetList(Take(deduped, MAX_RECS))

\* ------------------------------------------------------------------------
\* _filter_duplicates (cli.py, web.py) and the inline filter of scheduler.py
\* ------------------------------------------------------------------------
\* {title.strip().lower() for title in already}
SeenTitles(already) ==
    {lower(strip(already[i])) : i \in 1..Len(already)}

\* filter_duplicates with the titles compared as written.
filter_duplicates_exact(recs, already) ==
    IF already = <<>> THEN recs
    ELSE SelectSeq(recs, LAMBDA r :
            Val(Val(r)[Word("title")]) \notin {already[i] : i \in 1..Len(already)})

\* filter_duplicates that hands the kept items back last first.
filter_duplicates_reversed(recs, already) ==
    IF already = <<>> THEN recs
    ELSE LET kept == SelectSeq(recs, LAMBDA r : TitleKey(r) \notin SeenTitles(already))
         IN  [i \in 1..Len(kept) |-> kept[Len(kept) + 1 - i]]

filter_duplicates(recs, already) ==
    IF already = <<>> THEN recs
    ELSE SelectSeq(recs, LAMBDA r : TitleKey(r) \notin SeenTitles(already))

\* ------------------------------------------------------------------------
\* What the model writes: texts of candidates and payloads
\* ------------------------------------------------------------------------
Quoted(s) == <<QUOTE>> \o s \o <<QUOTE>>

Member(key, valueText) == <<QUOTE, key, QUOTE, ":">> \o valueText

\* The text of one candidate object with the four fields in prompt order.
CandText(title, author, yearText, explanation) ==
    <<"{">> \o Member("title", Quoted(title)) \o <<",">>
            \o Member("author", Quoted(author)) \o <<",">>
            \o Member("publication_year", yearText) \o <<",", " ">>
            \o Member("explanation", Quoted(explanation)) \o <<"}">>

RECURSIVE JoinTexts(_)
JoinTexts(texts) ==
    IF texts = <<>> THEN <<>>
    ELSE IF Len(texts) = 1 THEN texts[1]
    ELSE texts[1] \o <<",", "\n">> \o JoinTexts(Tail(texts))

\* The text of {"recommendations": [ ... ]}.
PayloadText(elementTexts) ==
    <<"{">> \o Member("recommendations", <<"[">> \o JoinTexts(elementTexts) \o <<"]">>) \o <<"}">>

Expl10 == <<"lorem9", "x">>

Expl9 == <<"lorem9">>

Expl1000 == <<"lorem1000">>

Expl1001 == <<"lorem1000", "x">>

\* A valid candidate with the given title.
Book(title) == CandText(title, <<"x">>, <<"1925">>, Expl10)

\* ------------------------------------------------------------------------
\* Inputs: model outputs and exclusion lists
\* ------------------------------------------------------------------------
TitleA == <<"a">>

TitleA2 == <<" ", "A", " ">>

TitleB == <<"b">>

TitleC == <<"c">>

TitleD == <<"d">>

TitleE == <<"e">>

TitleF == <<"f">>

\* A title that holds a fence marker.
TitleFenced == <<"a", FENCE, "b">>

Good3 == PayloadText(<<Book(TitleA), Book(TitleB), Book(TitleC)>>)

Good4 == PayloadText(<<Book(TitleA), Book(TitleB), Book(TitleC), Book(TitleD)>>)

\* Complete model outputs the service can return: well-formed payloads of
\* three to six candidates, payloads with repeated titles, a title that
\* holds a fence marker, defective
\* candidates and elements that are not objects, a fenced and a
\* prose-wrapped payload, and texts that hold no JSON object.
SampleTexts ==
    { Good3, Good4,
      PayloadText(<<Book(TitleA), Book(TitleB), Book(TitleC), Book(TitleD), Book(TitleE)>>),
      PayloadText(<<Book(TitleA), Book(TitleB), Book(TitleC), Book(TitleD), Book(TitleE),
                    Book(TitleF)>>),
      PayloadText(<<Book(TitleA), Book(TitleA2), Book(TitleB), Book(TitleC)>>),
      PayloadText(<<Book(TitleA), Book(TitleA2), Book(TitleB)>>),
      PayloadText(<<Book(TitleFenced), Book(TitleB), Book(TitleC)>>),
      PayloadText(<<Book(TitleA), Book(TitleB), Book(TitleC), <<"7">> >>),
      PayloadText(<< <<"null">>, Book(TitleA), Book(TitleB), Book(TitleC)>>),
      PayloadText(<<Quoted(TitleA), <<"[", "7", "]">>, Book(TitleA), Book(TitleB),
                    Book(TitleC)>>),
      PayloadText(<<Book(TitleA), Book(TitleB),
                    Quoted(<<"title", "author", "publication_year", "explanation">>)>>),
      PayloadText(<<Book(TitleA),
                    CandText(TitleB, <<"x">>, Quoted(<<"1999">>), Expl10),
                    CandText(TitleC, <<"x">>, <<"1999.5">>, Expl10),
                    CandText(TitleD, <<"x">>, <<"1300">>, Expl10),
                    CandText(<<" ">>, <<"x">>, <<"1925">>, Expl10)>>),
      PayloadText(<<Book(TitleA), Book(TitleB),
                    CandText(TitleC, <<"x">>, <<"Infinity">>, Expl10)>>),
      <<FENCE, "json", "\n">> \o Good3 \o <<"\n", FENCE>>,
      <<"Sure", " ">> \o Good4 \o <<" ", "Sure">>,
      <<"{">> \o Member("recommendations", <<"null">>) \o <<"}">>,
      <<"[">> \o Book(TitleA) \o <<",">> \o Book(TitleB) \o <<",">> \o Book(TitleC) \o <<"]">>,
      SubSeq(Good3, 1, Len(Good3) - 2),
      <<"Sure", " ", "{", "Sure", "}">> }

\* Bodies the completion service can return: the sample texts, an empty
\* body and a whitespace-only body.
ServiceBodies == SampleTexts \cup {<<>>, <<" ", "\n">>}

\* Exclusion lists handed to an invocation.
Exclusions ==
    { <<>>,
      <<<<"B">>>>,
      <<TitleA2, <<"c", " ">>>>,
      <<TitleA, TitleB, TitleC, TitleD>> }

\* ------------------------------------------------------------------------
\* State
\* ------------------------------------------------------------------------
MAX_RETRIES == 3

MAX_ATTEMPTS == 3

max_retries == 3

NumThreads == 2

Threads == 1..NumThreads

Kinds == {"cli", "web", "scheduler"}

Languages == {"en", "zh"}

VARIABLES
    active_lang,     \* i18n._lang, the module-level active language
    threads,         \* the threads that run invocations in this process
    pc,              \* pc[p]: where invocation p stands
    kind,            \* kind[p]: which orchestrator p runs
    lang,            \* lang[p]: the language of p's own request
    already,         \* already[p]: the exclusion list handed to p
    system_prompt,   \* system_prompt[p]: local of the orchestrator
    attempt,         \* attempt[p]: the orchestrator's loop counter
    llm_attempt,     \* llm_attempt[p]: call_llm's loop counter
    raw,             \* raw[p]: local of the orchestrator
    validated,       \* validated[p]: final as validate_recommendations returned it
    final,           \* final[p]: local of the orchestrator
    result,          \* result[p]: what the orchestrator returned
    n_calls,         \* n_calls[p]: call_llm invocations so far
    n_parses,        \* n_parses[p]: parse_llm_output invocations so far
    n_unparsed,      \* n_unparsed[p]: those that returned None
    item,            \* the rec handed to validate_recommendation
    verdict,         \* what validate_recommendation returned for item
    payload,         \* the list under parsed["recommendations"]
    outcome,         \* what validate_recommendations returned for payload
    log,             \* what the service answered to each request of one call_llm
    returned,        \* what that call_llm returned
    variant,         \* how wrapped derives from json_text
    json_text,       \* the text of a valid JSON object
    wrapped,         \* json_text fenced, set in prose, or with a trailing comma
    parse_plain,     \* parse_llm_output(json_text)
    parse_wrapped,   \* parse_llm_output(wrapped)
    prefs,           \* the validated preferences handed to build_user_prompt
    exclude,         \* its exclude argument: None or a list of titles
    user_prompt,     \* what build_user_prompt returned
    session_pc,      \* cli.main: "round" while rounds go on, then "over"
    already_recommended,  \* cli.main: the titles of the rounds so far
    rounds,          \* the title lists the rounds of the session returned
    today,           \* the run date of the scheduled job
    subscribers,     \* get_active_subscriptions(): the rows the job iterates
    chosen,          \* chosen[id]: the frequency that subscriber asked for
    job_pc,          \* where send_scheduled_recommendations stands
    sub_index,       \* the position of sub in subscribers
    dispatched,      \* ids of the subscribers generation was started for
    sent,            \* what send_recommendations_email returned
    sent_count,      \* the job's counter
    history,         \* the rows of recommendation_history
    data,            \* the JSON body of a POST /api/subscribe
    subscriptions,   \* the rows of the subscriptions table
    next_token,      \* the serial number of the next uuid4 token
    response,        \* what api_subscribe answered
    db_call,         \* the last call of a database helper: arguments and result
    _scheduler,      \* scheduler._scheduler: 0 for None, else the instance
    instances,       \* every BackgroundScheduler created so far
    scheduler_calls, \* the start_scheduler / stop_scheduler calls made so far
    responses,       \* what call_llm returns at each attempt, in order
    exclusion,       \* the exclusion list handed to each orchestrator
    by_cli,          \* how cli.generate_recommendations ended on them
    by_web,          \* how the loop of web.api_recommend ended on them
    by_scheduler     \* how scheduler._generate_for_subscriber ended on them

pipeline_vars ==
    <<active_lang, threads, pc, kind, lang, already, system_prompt, attempt,
      llm_attempt, raw, validated, final, result, n_calls, n_parses, n_unparsed>>

validator_vars == <<item, verdict, payload, outcome>>

call_vars == <<log, returned>>

\* The variables of the units that are exercised on their own.
parse_vars == <<variant, json_text, wrapped, parse_plain, parse_wrapped>>

prompt_vars == <<prefs, exclude, user_prompt>>

session_vars == <<session_pc, already_recommended, rounds>>

job_vars ==
    <<today, subscribers, chosen, job_pc, sub_index, dispatched, sent, sent_count, history>>

subscribe_vars == <<data, subscriptions, next_token, response>>

service_vars == <<db_call, _scheduler, instances, scheduler_calls>>

equivalence_vars == <<responses, exclusion, by_cli, by_web, by_scheduler>>

unit_vars ==
    <<call_vars, parse_vars, prompt_vars, session_vars, job_vars, subscribe_vars,
      service_vars, equivalence_vars>>

\* What the steps of each unit leave alone.
parse_frame ==
    <<pipeline_vars, validator_vars, call_vars, prompt_vars, session_vars, job_vars,
      subscribe_vars, service_vars, equivalence_vars>>

prompt_frame ==
    <<pipeline_vars, validator_vars, call_vars, parse_vars, session_vars, job_vars,
      subscribe_vars, service_vars, equivalence_vars>>

session_frame ==
    <<validator_vars, call_vars, parse_vars, prompt_vars, job_vars, subscribe_vars,
      service_vars, equivalence_vars>>

job_frame ==
    <<validator_vars, call_vars, parse_vars, prompt_vars, session_vars, subscribe_vars,
      service_vars, equivalence_vars>>

subscribe_frame ==
    <<threads, pc, kind, lang, already, system_prompt, attempt, llm_attempt, raw,
      validated, final, result, n_calls, n_parses, n_unparsed, validator_vars,
      call_vars, parse_vars, prompt_vars, session_vars, job_vars, service_vars, equivalence_vars>>

\* The variables that the database helpers and the scheduler switch leave
\* alone.
service_frame ==
    <<pipeline_vars, validator_vars, call_vars, parse_vars, prompt_vars, session_vars,
      job_vars, data, response, equivalence_vars>>

equivalence_frame ==
    <<pipeline_vars, validator_vars, call_vars, parse_vars, prompt_vars, session_vars,
      job_vars, subscribe_vars, service_vars>>

vars == <<pipeline_vars, validator_vars, unit_vars>>

Unset == [st |-> "unset", recs |-> <<>>]

\* The attempt ceiling of each orchestrator.
AttemptCeiling(kd) ==
    CASE kd = "cli" -> MAX_RETRIES
      [] kd = "web" -> max_retries
      [] kd = "scheduler" -> MAX_ATTEMPTS

\* get_system_prompt(): reads the module-level language.
get_system_prompt ==
    IF active_lang = "zh" THEN "_SYSTEM_PROMPT_ZH" ELSE "_SYSTEM_PROMPT_EN"

InitLocals ==
    /\ active_lang = "en"
    /\ pc = [p \in Threads |-> "idle"]
    /\ kind = [p \in Threads |-> "cli"]
    /\ lang = [p \in Threads |-> "en"]
    /\ already = [p \in Threads |-> <<>>]
    /\ system_prompt = [p \in Threads |-> "none"]
    /\ attempt = [p \in Threads |-> 0]
    /\ llm_attempt = [p \in Threads |-> 0]
    /\ raw = [p \in Threads |-> <<>>]
    /\ validated = [p \in Threads |-> Unset]
    /\ final = [p \in Threads |-> Unset]
    /\ result = [p \in Threads |-> Unset]
    /\ n_calls = [p \in Threads |-> 0]
    /\ n_parses = [p \in Threads |-> 0]
    /\ n_unparsed = [p \in Threads |-> 0]

InitValidator ==
    /\ item = JNull
    /\ verdict = "unset"
    /\ payload = <<>>
    /\ outcome = Unset

\* No request has been made.
IdleCall ==
    /\ log = <<>>
    /\ returned = <<"pending", <<>>>>

\* Nothing has been handed to parse_llm_output.
IdleParse ==
    /\ variant = "none"
    /\ json_text = <<>>
    /\ wrapped = <<>>
    /\ parse_plain = ParseNone
    /\ parse_wrapped = ParseNone

\* build_user_prompt has not been called.
IdlePrompt ==
    /\ prefs = <<>>
    /\ exclude = <<"None", <<>>>>
    /\ user_prompt = <<>>

\* No CLI session runs.
IdleSession ==
    /\ session_pc = "none"
    /\ already_recommended = <<>>
    /\ rounds = <<>>

\* No scheduled job runs.
IdleJob ==
    /\ today = [weekday |-> 0, day |-> 1]
    /\ subscribers = <<>>
    /\ chosen = <<>>
    /\ job_pc = "none"
    /\ sub_index = 0
    /\ dispatched = {}
    /\ sent = FALSE
    /\ sent_count = 0
    /\ history = <<>>

\* No subscription request has arrived.
IdleSubscribe ==
    /\ data = <<>>
    /\ subscriptions = <<>>
    /\ next_token = 1
    /\ response = [status |-> 0]

\* No database helper has been called and no scheduler was ever started.
IdleService ==
    /\ db_call = [op |-> "none", email |-> <<>>, prefs |-> <<>>, token |-> 0,
                  st |-> "ok", updated |-> FALSE, n |-> 0]
    /\ _scheduler = 0
    /\ instances = <<>>
    /\ scheduler_calls = <<>>

\* No orchestrator has been run side by side with the others.
IdleEquivalence ==
    /\ responses = <<>>
    /\ exclusion = <<>>
    /\ by_cli = [ret |-> Unset, calls |-> 0]
    /\ by_web = [ret |-> Unset, calls |-> 0]
    /\ by_scheduler = [ret |-> Unset, calls |-> 0]

IdleUnits ==
    /\ IdleCall
    /\ IdleParse
    /\ IdlePrompt
    /\ IdleSession
    /\ IdleJob
    /\ IdleSubscribe
    /\ IdleService
    /\ IdleEquivalence

\* One invocation at a time: the CLI, or a single request.
Init ==
    /\ threads = {1}
    /\ InitLocals
    /\ InitValidator
    /\ IdleUnits

\* The web process: request threads and the scheduler's job thread.
InitConcurrent ==
    /\ threads = Threads
    /\ InitLocals
    /\ InitValidator
    /\ IdleUnits

\* ------------------------------------------------------------------------
\* Orchestrators: cli.generate_recommendations, web.api_recommend,
\* scheduler._generate_for_subscriber
\* ------------------------------------------------------------------------
\* An invocation starts with its inputs and calls set_language(lang).
Begin(p, kinds, langs, exclusions) ==
    /\ p \in threads
    /\ pc[p] = "idle"
    /\ \E kd \in kinds, lg \in langs, ex \in exclusions :
          /\ kind' = [kind EXCEPT ![p] = kd]
          /\ lang' = [lang EXCEPT ![p] = lg]
          /\ already' = [already EXCEPT ![p] = ex]
          /\ active_lang' = lg
    /\ pc' = [pc EXCEPT ![p] = "prompt"]
    /\ UNCHANGED <<threads, system_prompt, attempt, llm_attempt, raw, validated,
                   final, result, n_calls, n_parses, n_unparsed, validator_vars>>

\* system_prompt = get_system_prompt(), then the retry loop is entered.
GetSystemPrompt(p) ==
    /\ p \in threads
    /\ pc[p] = "prompt"
    /\ system_prompt' = [system_prompt EXCEPT ![p] = get_system_prompt]
    /\ attempt' = [attempt EXCEPT ![p] = 1]
    /\ llm_attempt' = [llm_attempt EXCEPT ![p] = 1]
    /\ pc' = [pc EXCEPT ![p] = "call"]
    /\ UNCHANGED <<active_lang, threads, kind, lang, already, raw, validated, final,
                   result, n_calls, n_parses, n_unparsed, validator_vars>>

\* AttemptFailed with the loop one iteration short.
AttemptFailedEarly(p) ==
    IF attempt[p] + 1 < AttemptCeiling(kind[p])
    THEN /\ attempt' = [attempt EXCEPT ![p] = attempt[p] + 1]
         /\ llm_attempt' = [llm_attempt EXCEPT ![p] = 1]
         /\ pc' = [pc EXCEPT ![p] = "call"]
         /\ result' = result
    ELSE /\ pc' = [pc EXCEPT ![p] = "done"]
         /\ result' = [result EXCEPT ![p] = RetNone]
         /\ UNCHANGED <<attempt, llm_attempt>>

\* The current attempt of p has failed: continue, or the loop ends and
\* the orchestrator returns None.
AttemptFailed(p) ==
    IF attempt[p] < AttemptCeiling(kind[p])
    THEN /\ attempt' = [attempt EXCEPT ![p] = attempt[p] + 1]
         /\ llm_attempt' = [llm_attempt EXCEPT ![p] = 1]
         /\ pc' = [pc EXCEPT ![p] = "call"]
         /\ result' = result
    ELSE /\ pc' = [pc EXCEPT ![p] = "done"]
         /\ result' = [result EXCEPT ![p] = RetNone]
         /\ UNCHANGED <<attempt, llm_attempt>>

\* RequestFailed with one request more before call_llm gives up.
RequestFailedExtra(p) ==
    IF llm_attempt[p] < MAX_RETRIES + 1
    THEN /\ llm_attempt' = [llm_attempt EXCEPT ![p] = llm_attempt[p] + 1]
         /\ UNCHANGED <<pc, attempt, result, n_calls>>
    ELSE /\ n_calls' = [n_calls EXCEPT ![p] = n_calls[p] + 1]
         /\ AttemptFailed(p)

\* RequestFailed with the loop one request short.
RequestFailedShort(p) ==
    IF llm_attempt[p] + 1 < MAX_RETRIES
    THEN /\ llm_attempt' = [llm_attempt EXCEPT ![p] = llm_attempt[p] + 1]
         /\ UNCHANGED <<pc, attempt, result, n_calls>>
    ELSE /\ n_calls' = [n_calls EXCEPT ![p] = n_calls[p] + 1]
         /\ AttemptFailed(p)

\* One request of call_llm did not yield text: call_llm retries, or gives
\* up and returns None to the orchestrator.
RequestFailed(p) ==
    IF llm_attempt[p] < MAX_RETRIES
    THEN /\ llm_attempt' = [llm_attempt EXCEPT ![p] = llm_attempt[p] + 1]
         /\ UNCHANGED <<pc, attempt, result, n_calls>>
    ELSE /\ n_calls' = [n_calls EXCEPT ![p] = n_calls[p] + 1]
         /\ AttemptFailed(p)

\* call_llm: the request raises.
RequestRaises(p) ==
    /\ p \in threads
    /\ pc[p] = "call"
    /\ RequestFailed(p)
    /\ UNCHANGED <<active_lang, threads, kind, lang, already, system_prompt, raw,
                   validated, final, n_parses, n_unparsed, validator_vars>>

\* call_llm: the request returns a body; an empty or whitespace-only body
\* is retried, any other body is returned to the orchestrator as raw.
RequestReturns(p, bodies) ==
    /\ p \in threads
    /\ pc[p] = "call"
    /\ \E body \in bodies :
          IF strip(body) = <<>>
          THEN /\ RequestFailed(p)
               /\ raw' = raw
          ELSE /\ raw' = [raw EXCEPT ![p] = body]
               /\ n_calls' = [n_calls EXCEPT ![p] = n_calls[p] + 1]
               /\ pc' = [pc EXCEPT ![p] = "process"]
               /\ UNCHANGED <<attempt, llm_attempt, result>>
    /\ UNCHANGED <<active_lang, threads, kind, lang, already, system_prompt,
                   validated, final, n_parses, n_unparsed, validator_vars>>

\* Layers 4 to 6 of one attempt on the text rawText with the exclusion list
\* excluded: st is "parse" (parse_llm_output returned None), "validate"
\* (validate_recommendations returned None), "raise" (an exception left
\* validate_recommendations), "empty" (the filter left nothing) or "ok";
\* checked is what validate_recommendations returned, filtered what the
\* filter returned.
RunLayers(rawText, excluded) ==
    LET parsed == parse_llm_output(rawText) IN
    IF ~parsed.ok THEN [st |-> "parse", checked |-> Unset, filtered |-> Unset]
    ELSE LET checked == validate_recommendations(parsed.val) IN
         IF checked.st = "raise" THEN [st |-> "raise", checked |-> Unset, filtered |-> Unset]
         ELSE IF checked.st = "None"
         THEN [st |-> "validate", checked |-> RetNone, filtered |-> RetNone]
         ELSE LET filtered == filter_duplicates(checked.recs, excluded) IN
              [st |-> IF filtered = <<>> THEN "empty" ELSE "ok",
               checked |-> checked, filtered |-> RetList(filtered)]

\* Process that, when parsing fails, returns the list an earlier attempt
\* validated.
ProcessCarryOver(p) ==
    /\ p \in threads
    /\ pc[p] = "process"
    /\ n_parses' = [n_parses EXCEPT ![p] = n_parses[p] + 1]
    /\ \E out \in {RunLayers(raw[p], already[p])} :
          /\ n_unparsed' = IF out.st = "parse"
                           THEN [n_unparsed EXCEPT ![p] = n_unparsed[p] + 1]
                           ELSE n_unparsed
          /\ validated' = IF out.st \in {"parse", "raise"} THEN validated
                          ELSE [validated EXCEPT ![p] = out.checked]
          /\ final' = IF out.st \in {"parse", "raise"} THEN final
                      ELSE [final EXCEPT ![p] = out.filtered]
          /\ CASE out.st = "raise" ->
                    /\ pc' = [pc EXCEPT ![p] = "raised"]
                    /\ UNCHANGED <<attempt, llm_attempt, result>>
               [] out.st = "ok" ->
                    /\ pc' = [pc EXCEPT ![p] = "done"]
                    /\ result' = [result EXCEPT ![p] = out.filtered]
                    /\ UNCHANGED <<attempt, llm_attempt>>
               [] out.st = "parse" /\ validated[p].st = "list" ->
                    /\ pc' = [pc EXCEPT ![p] = "done"]
                    /\ result' = [result EXCEPT ![p] = validated[p]]
                    /\ UNCHANGED <<attempt, llm_attempt>>
               [] OTHER -> AttemptFailed(p)
    /\ UNCHANGED <<active_lang, threads, kind, lang, already, system_prompt, raw,
                   n_calls, validator_vars>>

\* One attempt past call_llm: the orchestrator returns the list, fails the
\* attempt, or lets the exception leave.
Process(p) ==
    /\ p \in threads
    /\ pc[p] = "process"
    /\ n_parses' = [n_parses EXCEPT ![p] = n_parses[p] + 1]
    /\ \E out \in {RunLayers(raw[p], already[p])} :
          /\ n_unparsed' = IF out.st = "parse"
                           THEN [n_unparsed EXCEPT ![p] = n_unparsed[p] + 1]
                           ELSE n_unparsed
          /\ validated' = IF out.st \in {"parse", "raise"} THEN validated
                          ELSE [validated EXCEPT ![p] = out.checked]
          /\ final' = IF out.st \in {"parse", "raise"} THEN final
                      ELSE [final EXCEPT ![p] = out.filtered]
          /\ CASE out.st = "raise" ->
                    /\ pc' = [pc EXCEPT ![p] = "raised"]
                    /\ UNCHANGED <<attempt, llm_attempt, result>>
               [] out.st = "ok" ->
                    /\ pc' = [pc EXCEPT ![p] = "done"]
                    /\ result' = [result EXCEPT ![p] = out.filtered]
                    /\ UNCHANGED <<attempt, llm_attempt>>
               [] OTHER -> AttemptFailed(p)
    /\ UNCHANGED <<active_lang, threads, kind, lang, already, system_prompt, raw,
                   n_calls, validator_vars>>

Next ==
    /\ \E p \in Threads :
          \/ Begin(p, Kinds, {"en"}, Exclusions)
          \/ GetSystemPrompt(p)
          \/ RequestRaises(p)
          \/ RequestReturns(p, ServiceBodies)
          \/ Process(p)
    /\ UNCHANGED unit_vars

Spec == Init /\ [][Next]_vars

\* ------------------------------------------------------------------------
\* Concurrent invocations in the web process
\* ------------------------------------------------------------------------
ConcurrentBodies == {Good3, <<" ">>}

NextConcurrent ==
    /\ \E p \in Threads :
          \/ Begin(p, {"web", "scheduler"}, Languages, {<<>>})
          \/ GetSystemPrompt(p)
          \/ RequestRaises(p)
          \/ RequestReturns(p, ConcurrentBodies)
          \/ Process(p)
    /\ UNCHANGED unit_vars

SpecConcurrent == InitConcurrent /\ [][NextConcurrent]_vars

\* ------------------------------------------------------------------------
\* call_llm against a service whose answers are recorded
\* ------------------------------------------------------------------------
CallBodies == {<<>>, <<" ", "\n">>, Good3, <<"sorry">>}

\* The answer resp to the request just made is recorded: the list starts
\* anew with the first request of a call_llm, and returned tells whether
\* call_llm went on to another request, returned text or returned None.
Logged(p, resp) ==
    /\ log' = IF llm_attempt[p] = 1 THEN <<resp>> ELSE Append(log, resp)
    /\ returned' = IF pc'[p] = "process" THEN <<"text", raw'[p]>>
                   ELSE IF n_calls'[p] # n_calls[p] THEN <<"None", <<>>>>
                   ELSE <<"pending", <<>>>>

CallRaises(p) ==
    /\ RequestRaises(p)
    /\ Logged(p, <<"raise", <<>>>>)

CallReturns(p) ==
    \E body \in CallBodies :
        /\ RequestReturns(p, {body})
        /\ Logged(p, <<"body", body>>)

NextCall ==
    /\ \E p \in Threads :
          \/ Begin(p, Kinds, {"en"}, {<<>>}) /\ UNCHANGED call_vars
          \/ GetSystemPrompt(p) /\ UNCHANGED call_vars
          \/ CallRaises(p)
          \/ CallReturns(p)
          \/ Process(p) /\ UNCHANGED call_vars
    /\ UNCHANGED <<parse_vars, prompt_vars, session_vars, job_vars, subscribe_vars,
                   service_vars, equivalence_vars>>

SpecCall == Init /\ [][NextCall]_vars

\* ------------------------------------------------------------------------
\* Every request of one orchestrator invocation
\* ------------------------------------------------------------------------
\* What the service answers: nothing, text that does not parse and a valid
\* payload.
RequestBodies == {<<>>, <<"sorry">>, Good3}

\* The answer resp to the request just made is added to the list of the
\* invocation's requests.
LoggedAll(p, resp) ==
    /\ log' = Append(log, resp)
    /\ returned' = IF pc'[p] = "process" THEN <<"text", raw'[p]>>
                   ELSE IF n_calls'[p] # n_calls[p] THEN <<"None", <<>>>>
                   ELSE <<"pending", <<>>>>

RequestRaisesLogged(p) ==
    /\ RequestRaises(p)
    /\ LoggedAll(p, <<"raise", <<>>>>)

RequestReturnsLogged(p) ==
    \E body \in RequestBodies :
        /\ RequestReturns(p, {body})
        /\ LoggedAll(p, <<"body", body>>)

NextRequests ==
    /\ \E p \in Threads :
          \/ Begin(p, Kinds, {"en"}, {<<>>}) /\ UNCHANGED call_vars
          \/ GetSystemPrompt(p) /\ UNCHANGED call_vars
          \/ RequestRaisesLogged(p)
          \/ RequestReturnsLogged(p)
          \/ Process(p) /\ UNCHANGED call_vars
    /\ UNCHANGED <<parse_vars, prompt_vars, session_vars, job_vars, subscribe_vars,
                   service_vars, equivalence_vars>>

SpecRequests == Init /\ [][NextRequests]_vars

\* ------------------------------------------------------------------------
\* parse_llm_output applied to a JSON object text and to a text derived
\* from it
\* ------------------------------------------------------------------------
\* The text of {"recommendations": [ ... tail]}: tail is <<>>, or the
\* trailing comma (and whitespace) written before the closing bracket.
PayloadTextWith(elementTexts, tail) ==
    <<"{">> \o Member("recommendations", <<"[">> \o JoinTexts(elementTexts) \o tail \o <<"]">>)
        \o <<"}">>

\* A title that holds a comma followed by a closing bracket.
TitleBracketed == <<"a", ",", " ", "]">>

\* The element lists of the object texts.
ElementLists ==
    { <<Book(TitleA), Book(TitleB), Book(TitleC)>>,
      <<Book(TitleA)>>,
      <<<<"7">>, Quoted(TitleA), <<"null">> >>,
      <<<<"{">> \o Member("a", <<"{">> \o Member("b", <<"7">>) \o <<"}">>) \o <<"}">> >>,
      <<Book(<<"a", "{", "b">>), Book(TitleB)>>,
      <<Book(TitleFenced), Book(TitleB)>>,
      <<Book(TitleBracketed), Book(TitleB)>> }

CommaTails == {<<",">>, <<",", "\n", " ">>}

\* Opening and closing fence lines, with and without a language tag.
FenceOpenings ==
    {<<FENCE, "json", "\n">>, <<FENCE, "\n">>, <<FENCE, "json">>, <<FENCE>>,
     <<FENCE, "python", "\n">>}

FenceClosings == {<<"\n", FENCE>>, <<FENCE>>, <<"\n", FENCE, "\n">>}

\* Prose before and after the object, free of braces.
Prefixes ==
    {<<>>, <<"Sure", ":", "\n">>, <<"[">>, <<FENCE, "json", " ">>, <<QUOTE, ",">>}

Suffixes ==
    {<<>>, <<"\n", "Sure">>, <<"]">>, <<",", "]">>, <<"\n", FENCE>>}

InitParse ==
    /\ threads = {}
    /\ InitLocals
    /\ InitValidator
    /\ IdleCall
    /\ IdlePrompt
    /\ IdleSession
    /\ IdleJob
    /\ IdleSubscribe
    /\ IdleService
    /\ IdleEquivalence
    /\ parse_plain = ParseNone
    /\ parse_wrapped = ParseNone
    /\ \E elems \in ElementLists :
          /\ json_text = PayloadTextWith(elems, <<>>)
          /\ \/ /\ variant = "fence"
                /\ wrapped \in {open \o json_text \o close :
                                    open \in FenceOpenings, close \in FenceClosings}
             \/ /\ variant = "prose"
                /\ wrapped \in {pre \o json_text \o suf : pre \in Prefixes, suf \in Suffixes}
             \/ /\ variant = "comma"
                /\ wrapped \in {PayloadTextWith(elems, tail) : tail \in CommaTails}

\* Both texts are parsed.
ParseBoth ==
    /\ variant \in {"fence", "prose", "comma"}
    /\ parse_plain' = parse_llm_output(json_text)
    /\ parse_wrapped' = parse_llm_output(wrapped)
    /\ variant' = variant \o "-parsed"
    /\ UNCHANGED <<json_text, wrapped, parse_frame>>

NextParse == ParseBoth

SpecParse == InitParse /\ [][NextParse]_vars

\* ------------------------------------------------------------------------
\* parse_llm_output applied to texts that end at each of its stages
\* ------------------------------------------------------------------------
\* Texts that decode to an array or a scalar, or to nothing.
BareTexts ==
    {<<"7">>, <<"null">>, Quoted(TitleA), <<"[", "7", "]">>, <<"[", "]">>,
     <<"Sure">>, <<"{", "Sure", "}">>, <<>>}

\* Object texts, with and without a trailing comma, alone or inside prose,
\* brackets or fences; two objects side by side; arrays and scalars.
StageTexts ==
    {pre \o PayloadTextWith(elems, tail) \o suf :
        pre \in Prefixes, suf \in Suffixes, elems \in ElementLists,
        tail \in {<<>>, <<",">>}}
    \cup {PayloadTextWith(elems, <<>>) \o <<"\n">> \o PayloadTextWith(elems, <<>>) :
             elems \in ElementLists}
    \cup {pre \o bare : pre \in {<<>>, <<FENCE, "json", "\n">>}, bare \in BareTexts}

InitStages ==
    /\ threads = {}
    /\ InitLocals
    /\ InitValidator
    /\ IdleCall
    /\ IdlePrompt
    /\ IdleSession
    /\ IdleJob
    /\ IdleSubscribe
    /\ IdleService
    /\ IdleEquivalence
    /\ variant = "stages"
    /\ json_text = <<>>
    /\ wrapped \in StageTexts
    /\ parse_plain = ParseNone
    /\ parse_wrapped = ParseNone

\* parse_llm_output(wrapped)
ParseStages ==
    /\ variant = "stages"
    /\ parse_wrapped' = parse_llm_output(wrapped)
    /\ variant' = "stages-parsed"
    /\ UNCHANGED <<json_text, wrapped, parse_plain, parse_frame>>

NextStages == ParseStages

SpecStages == InitStages /\ [][NextStages]_vars

\* ------------------------------------------------------------------------
\* build_user_prompt
\* ------------------------------------------------------------------------
\* The literal pieces of the prompt, each one symbol.
GENRES_LEAD == "I enjoy these genres: "

BOOKS_LEAD == "Some books I love: "

FAMILIARITY_LEAD == "For familiarity, I'd like: "

EXCLUDE_HEADER ==
    "IMPORTANT: Do NOT recommend any of these books, which have already been suggested:"

BULLET == "  - "

CLOSING ==
    "Please recommend 3 to 5 books as a single JSON object with key \"recommendations\" containing an array of objects with keys: title, author, publication_year, explanation."

FAMILIARITY_MAP ==
    <<"very familiar, well-known classics and bestsellers",
      "mostly familiar titles with a few lesser-known picks",
      "a mix of familiar favorites and hidden gems",
      "surprise me with unexpected, lesser-known books">>

\* sep.join(parts), parts a sequence of texts
RECURSIVE join(_, _)
join(sep, parts) ==
    IF parts = <<>> THEN <<>>
    ELSE IF Len(parts) = 1 THEN parts[1]
    ELSE parts[1] \o sep \o join(sep, Tail(parts))

\* if exclude: neither None nor the empty list
Truthy(ex) == ex[1] = "list" /\ ex[2] # <<>>

\* build_user_prompt that tests exclude against None only.
build_user_prompt_not_none(pf, ex) ==
    <<GENRES_LEAD>> \o join(<<", ">>, pf.genres) \o <<".", "\n">>
        \o <<BOOKS_LEAD>> \o join(<<", ">>, pf.favorite_books) \o <<".", "\n">>
        \o <<FAMILIARITY_LEAD, FAMILIARITY_MAP[pf.familiarity_level], ".", "\n", "\n">>
        \o (IF ex[1] = "list"
            THEN <<EXCLUDE_HEADER, "\n">>
                     \o join(<<"\n">>, [i \in 1..Len(ex[2]) |-> <<BULLET>> \o ex[2][i]])
                     \o <<"\n", "\n">>
            ELSE <<>>)
        \o <<CLOSING>>

build_user_prompt(pf, ex) ==
    <<GENRES_LEAD>> \o join(<<", ">>, pf.genres) \o <<".", "\n">>
        \o <<BOOKS_LEAD>> \o join(<<", ">>, pf.favorite_books) \o <<".", "\n">>
        \o <<FAMILIARITY_LEAD, FAMILIARITY_MAP[pf.familiarity_level], ".", "\n", "\n">>
        \o (IF Truthy(ex)
            THEN <<EXCLUDE_HEADER, "\n">>
                     \o join(<<"\n">>, [i \in 1..Len(ex[2]) |-> <<BULLET>> \o ex[2][i]])
                     \o <<"\n", "\n">>
            ELSE <<>>)
        \o <<CLOSING>>

GenreLists == {<<<<"fantasy">>>>, <<<<"science fiction">>, <<"mystery">>>>}

BookLists == {<<<<"Dune">>, <<"Emma">>>>, <<<<"Dune">>, <<"Emma">>, <<"Ulysses">>>>}

ExcludeArgs ==
    { <<"None", <<>>>>, <<"list", <<>>>>, <<"list", <<TitleA>>>>,
      <<"list", <<TitleB, TitleA2>>>>, <<"list", <<TitleC, TitleA, TitleC>>>>,
      <<"list", <<<<"Do", " ", "NOT">>, TitleFenced, TitleBracketed, TitleD>>>> }

InitPrompt ==
    /\ threads = {}
    /\ InitLocals
    /\ InitValidator
    /\ IdleCall
    /\ IdleParse
    /\ IdleSession
    /\ IdleJob
    /\ IdleSubscribe
    /\ IdleService
    /\ IdleEquivalence
    /\ prefs \in [genres : GenreLists, favorite_books : BookLists,
                  familiarity_level : DOMAIN FAMILIARITY_MAP]
    /\ exclude \in ExcludeArgs
    /\ user_prompt = <<>>

BuildUserPrompt ==
    /\ user_prompt = <<>>
    /\ user_prompt' = build_user_prompt(prefs, exclude)
    /\ UNCHANGED <<prefs, exclude, prompt_frame>>

NextPrompt == BuildUserPrompt

SpecPrompt == InitPrompt /\ [][NextPrompt]_vars

\* ------------------------------------------------------------------------
\* cli.main: the rounds of one session
\* ------------------------------------------------------------------------
MaxRounds == 3

SessionBodies ==
    { Good3,
      PayloadText(<<Book(TitleA2), Book(TitleD), Book(TitleE)>>),
      PayloadText(<<Book(TitleD), Book(TitleE), Book(TitleF), Book(<<"C">>)>>),
      <<"sorry">> }

\* [rec["title"] for rec in recs]
TitlesOf(recs) == [i \in 1..Len(recs) |-> Val(Val(recs[i])[Word("title")])]

InitSession ==
    /\ threads = {1}
    /\ InitLocals
    /\ InitValidator
    /\ IdleCall
    /\ IdleParse
    /\ IdlePrompt
    /\ IdleJob
    /\ IdleSubscribe
    /\ IdleService
    /\ IdleEquivalence
    /\ session_pc = "round"
    /\ already_recommended = <<>>
    /\ rounds = <<>>

\* The locals of invocation p are those of a fresh call.
FreshLocals(p) ==
    /\ pc' = [pc EXCEPT ![p] = "idle"]
    /\ system_prompt' = [system_prompt EXCEPT ![p] = "none"]
    /\ attempt' = [attempt EXCEPT ![p] = 0]
    /\ llm_attempt' = [llm_attempt EXCEPT ![p] = 0]
    /\ raw' = [raw EXCEPT ![p] = <<>>]
    /\ validated' = [validated EXCEPT ![p] = Unset]
    /\ final' = [final EXCEPT ![p] = Unset]
    /\ result' = [result EXCEPT ![p] = Unset]
    /\ n_calls' = [n_calls EXCEPT ![p] = 0]
    /\ n_parses' = [n_parses EXCEPT ![p] = 0]
    /\ n_unparsed' = [n_unparsed EXCEPT ![p] = 0]
    /\ UNCHANGED <<active_lang, threads, kind, lang, already>>

\* generate_recommendations(user_prompt, prefs, already_recommended) is called.
StartRound ==
    /\ session_pc = "round"
    /\ Begin(1, {"cli"}, {"en"}, {already_recommended})
    /\ UNCHANGED session_vars

\* A step of the round's generate_recommendations.
RoundStep ==
    /\ session_pc = "round"
    /\ \/ GetSystemPrompt(1)
       \/ RequestRaises(1)
       \/ RequestReturns(1, SessionBodies)
       \/ Process(1)
    /\ UNCHANGED session_vars

\* EndRound that does not track the titles of the round.
EndRoundUntracked ==
    /\ session_pc = "round"
    /\ pc[1] = "done"
    /\ IF result[1].st = "None"
       THEN /\ session_pc' = "over"
            /\ UNCHANGED <<pipeline_vars, already_recommended, rounds>>
       ELSE /\ already_recommended' = already_recommended
            /\ rounds' = Append(rounds, TitlesOf(result[1].recs))
            /\ \E answer \in {"yes", "no"} :
                  IF answer = "no" \/ Len(rounds') >= MaxRounds
                  THEN session_pc' = "over" /\ UNCHANGED pipeline_vars
                  ELSE session_pc' = "round" /\ FreshLocals(1)

\* generate_recommendations has returned: None ends the session; a list
\* extends already_recommended, and the user's answer decides on another
\* round.
EndRound ==
    /\ session_pc = "round"
    /\ pc[1] = "done"
    /\ IF result[1].st = "None"
       THEN /\ session_pc' = "over"
            /\ UNCHANGED <<pipeline_vars, already_recommended, rounds>>
       ELSE /\ already_recommended' = already_recommended \o TitlesOf(result[1].recs)
            /\ rounds' = Append(rounds, TitlesOf(result[1].recs))
            /\ \E answer \in {"yes", "no"} :
                  IF answer = "no" \/ Len(rounds') >= MaxRounds
                  THEN session_pc' = "over" /\ UNCHANGED pipeline_vars
                  ELSE session_pc' = "round" /\ FreshLocals(1)

NextSession ==
    /\ StartRound \/ RoundStep \/ EndRound
    /\ UNCHANGED session_frame

SpecSession == InitSession /\ [][NextSession]_vars

\* ------------------------------------------------------------------------
\* scheduler.send_scheduled_recommendations: the daily job
\* ------------------------------------------------------------------------
MaxSubscribers == 2

Frequencies == {"daily", "weekly", "monthly"}

\* Run dates: weekday 0 is Monday, day is the day of the month.
Dates ==
    { [weekday |-> 0, day |-> 1], [weekday |-> 0, day |-> 8],
      [weekday |-> 2, day |-> 1], [weekday |-> 2, day |-> 4] }

\* A row of the subscriptions table as get_active_subscriptions returns
\* it: the columns of _SCHEMA that the job reads.
SubscriptionRow(id) ==
    [id |-> id,
     email |-> IF id % 2 = 1 THEN "a@x.org" ELSE "b@x.org",
     language |-> IF id % 2 = 1 THEN "en" ELSE "zh",
     unsubscribe_token |-> id,
     active |-> 1]

\* sub.get(key, default)
DictGet(row, key, default) ==
    IF key \in DOMAIN row THEN row[key] ELSE default

_should_send_today(frequency, date) ==
    IF frequency = "daily" THEN TRUE
    ELSE IF frequency = "weekly" THEN date.weekday = 0
    ELSE IF frequency = "monthly" THEN date.day = 1
    ELSE FALSE

\* get_recommended_titles(subscription_id)
RECURSIVE get_recommended_titles(_, _)
get_recommended_titles(rows, subscription_id) ==
    IF rows = <<>> THEN <<>>
    ELSE (IF Head(rows)[1] = subscription_id THEN Head(rows)[2] ELSE <<>>)
             \o get_recommended_titles(Tail(rows), subscription_id)

JobBodies == {Good3, <<"sorry">>}

InitJob ==
    /\ threads = {1}
    /\ InitLocals
    /\ InitValidator
    /\ IdleCall
    /\ IdleParse
    /\ IdlePrompt
    /\ IdleSession
    /\ IdleSubscribe
    /\ IdleService
    /\ IdleEquivalence
    /\ today \in Dates
    /\ subscribers = [i \in 1..MaxSubscribers |-> SubscriptionRow(i)]
    /\ chosen \in [1..MaxSubscribers -> Frequencies]
    /\ job_pc = "next"
    /\ sub_index = 1
    /\ dispatched = {}
    /\ sent = FALSE
    /\ sent_count = 0
    /\ history \in {<<>>, << <<1, <<TitleA2>>>> >>}

\* for sub in subscribers: the frequency test; a subscriber that is due
\* is handed to _generate_for_subscriber, any other is passed over.
Dispatch ==
    /\ job_pc = "next"
    /\ sub_index <= Len(subscribers)
    /\ LET sub == subscribers[sub_index]
           freq == DictGet(sub, "frequency", "monthly")
       IN  IF ~_should_send_today(freq, today)
           THEN /\ sub_index' = sub_index + 1
                /\ UNCHANGED <<pipeline_vars, job_pc, dispatched>>
           ELSE /\ Begin(1, {"scheduler"}, {sub.language},
                         {get_recommended_titles(history, sub.id)})
                /\ job_pc' = "generating"
                /\ dispatched' = dispatched \cup {sub.id}
                /\ UNCHANGED sub_index
    /\ UNCHANGED <<today, subscribers, chosen, sent, sent_count, history>>

\* A step of _generate_for_subscriber.
GenerateStep ==
    /\ job_pc = "generating"
    /\ \/ GetSystemPrompt(1)
       \/ RequestRaises(1)
       \/ RequestReturns(1, JobBodies)
       \/ Process(1)
    /\ UNCHANGED job_vars

\* Deliver that records the titles whatever the send returned.
DeliverAlways ==
    /\ job_pc = "generating"
    /\ pc[1] = "done"
    /\ IF result[1].st = "None"
       THEN UNCHANGED <<sent, sent_count, history>>
       ELSE /\ sent' \in BOOLEAN
            /\ history' = Append(history, <<subscribers[sub_index].id,
                                             TitlesOf(result[1].recs)>>)
            /\ sent_count' = sent_count + 1
    /\ sub_index' = sub_index + 1
    /\ job_pc' = "next"
    /\ FreshLocals(1)
    /\ UNCHANGED <<today, subscribers, chosen, dispatched>>

\* _generate_for_subscriber has returned: None passes the subscriber
\* over; a list is mailed, and add_history is called when the send
\* returned True.
Deliver ==
    /\ job_pc = "generating"
    /\ pc[1] = "done"
    /\ IF result[1].st = "None"
       THEN UNCHANGED <<sent, sent_count, history>>
       ELSE /\ sent' \in BOOLEAN
            /\ IF sent'
               THEN /\ history' = Append(history, <<subscribers[sub_index].id,
                                                    TitlesOf(result[1].recs)>>)
                    /\ sent_count' = sent_count + 1
               ELSE UNCHANGED <<sent_count, history>>
    /\ sub_index' = sub_index + 1
    /\ job_pc' = "next"
    /\ FreshLocals(1)
    /\ UNCHANGED <<today, subscribers, chosen, dispatched>>

\* The loop is over.
JobFinished ==
    /\ job_pc = "next"
    /\ sub_index > Len(subscribers)
    /\ job_pc' = "finished"
    /\ UNCHANGED <<pipeline_vars, today, subscribers, chosen, sub_index, dispatched,
                   sent, sent_count, history>>

NextJob ==
    /\ Dispatch \/ GenerateStep \/ Deliver \/ JobFinished
    /\ UNCHANGED job_frame

SpecJob == InitJob /\ [][NextJob]_vars

\* ------------------------------------------------------------------------
\* POST /api/subscribe and the subscriptions table
\* ------------------------------------------------------------------------
\* _EMAIL_RE.match(email) for ^[^@\s]+@[^@\s]+\.[^@\s]+$ on an email of
\* one-character symbols and letter groups: one "@", no whitespace, a
\* non-empty local part, and a "." inside the rest with text on both
\* sides.
_EMAIL_RE(email) ==
    /\ \A i \in 1..Len(email) : email[i] \notin Whitespace
    /\ Cardinality({i \in 1..Len(email) : email[i] = "@"}) = 1
    /\ \E i \in 2..Len(email) :
          /\ email[i] = "@"
          /\ \E j \in (i + 2)..(Len(email) - 1) : email[j] = "."

_VALID_FREQUENCIES == {"daily", "weekly", "monthly"}

\* Display name -> internal name per language, for two of the nine
\* genres; "qihuan" and "xuanyi" stand for the Chinese display names.
GENRE_LOOKUP ==
    [en |-> (<<"fantasy">> :> "fantasy") @@ (<<"mystery">> :> "mystery"),
     zh |-> (<<"qihuan">> :> "fantasy") @@ (<<"xuanyi">> :> "mystery")]

\* lookup_genre(user_input) under the active language _lang: the active
\* language's table first, then the English one; "None" if unrecognised.
lookup_genre(user_input, _lang) ==
    LET normed == lower(strip(user_input)) IN
    IF normed \in DOMAIN GENRE_LOOKUP[_lang] THEN GENRE_LOOKUP[_lang][normed]
    ELSE IF normed \in DOMAIN GENRE_LOOKUP["en"] THEN GENRE_LOOKUP["en"][normed]
    ELSE "None"

MAX_STRING_LENGTH == 200

\* The symbols in which the character class of the title pattern (ASCII
\* letters, digits, CJK ideographs) finds a character.
HasAlnum(sym) ==
    sym \notin Whitespace \cup {"@", ".", ",", "]", "?", "!", FENCE, QUOTE}

_is_valid_book_title(title) ==
    /\ title # <<>>
    /\ py_len(title) <= MAX_STRING_LENGTH
    /\ \E i \in 1..Len(title) : HasAlnum(title[i])

\* The patterns without a wildcard, each one symbol of a text.
PROMPT_INJECTION_PATTERNS ==
    {"ignore previous instructions", "pretend you are", "forget your instructions",
     "you are now", "act as if", "new persona"}

_contains_prompt_injection(text) ==
    \E i \in 1..Len(text) : LowerSym(text[i]) \in PROMPT_INJECTION_PATTERNS

\* A row of the subscriptions table with the columns of _SCHEMA.
Row(id, email, language, genres, books, familiarity, token, active) ==
    [id |-> id, email |-> email, language |-> language, genres |-> genres,
     books |-> books, familiarity |-> familiarity, unsubscribe_token |-> token,
     active |-> active]

\* add_subscription(email, language, genres, books, familiarity) on the
\* table rows, token being the uuid4 it draws: st is "ok" with the table
\* as the function leaves it, or the exception it raises.
add_subscription_keep_token(rows, token, email, language, genres, books, familiarity) ==
    LET hits == {i \in 1..Len(rows) : rows[i].email = email} IN
    IF hits # {}
    THEN LET i == CHOOSE i \in hits : TRUE IN
         IF rows[i].active = 1
         THEN [st |-> "ValueError", rows |-> rows, token |-> 0]
         ELSE [st |-> "ok",
               rows |-> [rows EXCEPT ![i] =
                            Row(rows[i].id, email, language, genres, books,
                                familiarity, rows[i].unsubscribe_token, 1)],
               token |-> token]
    ELSE [st |-> "ok",
          rows |-> Append(rows, Row(Len(rows) + 1, email, language, genres, books,
                                    familiarity, token, 1)),
          token |-> token]

add_subscription(rows, token, email, language, genres, books, familiarity) ==
    LET hits == {i \in 1..Len(rows) : rows[i].email = email} IN
    IF hits # {}
    THEN LET i == CHOOSE i \in hits : TRUE IN
         IF rows[i].active = 1
         THEN [st |-> "ValueError", rows |-> rows, token |-> 0]
         ELSE [st |-> "ok",
               rows |-> [rows EXCEPT ![i] =
                            Row(rows[i].id, email, language, genres, books,
                                familiarity, token, 1)],
               token |-> token]
    ELSE [st |-> "ok",
          rows |-> Append(rows, Row(Len(rows) + 1, email, language, genres, books,
                                    familiarity, token, 1)),
          token |-> token]

\* A call add_subscription(*args): Python binds the positional arguments
\* to the five parameters of the signature and raises TypeError, before
\* the body runs, if there are more or fewer.
call_add_subscription(rows, token, args) ==
    IF Len(args) # 5
    THEN [st |-> "TypeError", rows |-> rows, token |-> 0]
    ELSE add_subscription(rows, token, args[1], args[2], args[3], args[4], args[5])

Answer(status, token) == [status |-> status, token |-> token]

\* What api_subscribe does with the body: its answer, the table and the
\* active language as it leaves them. An exception that no except clause
\* of the view catches is answered by the framework with status 500.
api_subscribe(body, rows, token, _lang) ==
    LET invalid(language) == [response |-> Answer(400, 0), rows |-> rows,
                              lang |-> language, drawn |-> FALSE]
        email == lower(strip(DictGet(body, "email", <<>>)))
        language == DictGet(body, "language", "en")
        frequency == DictGet(body, "frequency", "monthly")
        genres_raw == DictGet(body, "genres", JArr(<<>>))
        internal_genres ==
            [i \in 1..Len(Val(genres_raw)) |-> lookup_genre(Val(genres_raw)[i], language)]
        books == DictGet(body, "books", JArr(<<>>))
        familiarity == py_int(DictGet(body, "familiarity", JNull))
    IN
    IF DOMAIN body = {} THEN invalid(_lang)
    ELSE IF email = <<>> \/ ~_EMAIL_RE(email) THEN invalid(_lang)
    ELSE IF language \notin {"en", "zh"} THEN invalid(_lang)
    ELSE IF frequency \notin _VALID_FREQUENCIES THEN invalid(language)
    ELSE IF Kind(genres_raw) # "arr" \/ ~(1 <= Len(Val(genres_raw)) /\ Len(Val(genres_raw)) <= 3)
         THEN invalid(language)
    ELSE IF \E i \in 1..Len(internal_genres) : internal_genres[i] = "None"
         THEN invalid(language)
    ELSE IF Len(internal_genres) # Cardinality({internal_genres[i] : i \in 1..Len(internal_genres)})
         THEN invalid(language)
    ELSE IF Kind(books) # "arr" \/ ~(2 <= Len(Val(books)) /\ Len(Val(books)) <= 3)
         THEN invalid(language)
    ELSE IF \E i \in 1..Len(Val(books)) :
                ~_is_valid_book_title(Val(books)[i]) \/ _contains_prompt_injection(Val(books)[i])
         THEN invalid(language)
    ELSE IF familiarity.st \notin {"ok"} THEN invalid(language)
    ELSE IF familiarity.n \notin DOMAIN FAMILIARITY_MAP THEN invalid(language)
    ELSE LET out == call_add_subscription(rows, token,
                        <<email, language, internal_genres, Val(books),
                          familiarity.n, frequency>>)
         IN [response |-> CASE out.st = "ok" -> Answer(201, out.token)
                            [] out.st = "ValueError" -> Answer(409, 0)
                            [] OTHER -> Answer(500, 0),
             rows |-> out.rows,
             lang |-> language,
             drawn |-> out.st # "TypeError"]

EmailA == <<"a", "@", "x", ".", "org">>

Emails == {EmailA, <<" ", "A", "@", "x", ".", "org", " ">>, <<"b", "@", "x", ".", "org">>,
           <<"a", "@", "x">>}

GenreArgs ==
    {JArr(<< <<"fantasy">> >>), JArr(<< <<" ", "mystery">>, <<"qihuan">> >>),
     JArr(<< <<"fantasy">>, <<"qihuan">> >>), JArr(<< <<"poetry">> >>), JArr(<<>>),
     JStr(<<"fantasy">>)}

BookArgs ==
    {JArr(<<TitleA, TitleB>>), JArr(<<TitleA>>), JArr(<<TitleA, <<"?">> >>),
     JArr(<<TitleA, <<"pretend you are", " ", "a">> >>)}

FamiliarityArgs == {JInt(1), JStr(<<"0">>), JInt(7), JNull}

\* The JSON bodies: every key present, or only the required ones, or none.
Bodies ==
    {[email |-> e, language |-> l, frequency |-> f, genres |-> g, books |-> b,
      familiarity |-> k] :
        e \in Emails, l \in {"en", "zh", "fr"}, f \in {"daily", "yearly"},
        g \in GenreArgs, b \in BookArgs, k \in FamiliarityArgs}
    \cup {[email |-> e, genres |-> JArr(<< <<"fantasy">> >>),
           books |-> JArr(<<TitleA, TitleB>>), familiarity |-> JInt(1)] : e \in Emails}
    \cup {[x \in {} |-> 0]}

\* The table before the request: empty, or one row for EmailA, active or
\* not.
Tables ==
    {<<>>} \cup {<< Row(1, EmailA, "en", <<"mystery">>, <<TitleC, TitleD>>, 2, 100, a) >> :
                    a \in {0, 1}}

InitSubscribe ==
    /\ threads = {1}
    /\ InitLocals
    /\ InitValidator
    /\ IdleCall
    /\ IdleParse
    /\ IdlePrompt
    /\ IdleSession
    /\ IdleJob
    /\ IdleService
    /\ IdleEquivalence
    /\ data \in Bodies
    /\ subscriptions \in Tables
    /\ next_token = 1
    /\ response = Answer(0, 0)

\* One request to POST /api/subscribe.
ApiSubscribe ==
    /\ response.status = 0
    /\ \E out \in {api_subscribe(data, subscriptions, next_token, active_lang)} :
          /\ response' = out.response
          /\ subscriptions' = out.rows
          /\ active_lang' = out.lang
          /\ next_token' = IF out.drawn THEN next_token + 1 ELSE next_token
    /\ UNCHANGED data

NextSubscribe ==
    /\ ApiSubscribe
    /\ UNCHANGED subscribe_frame

SpecSubscribe == InitSubscribe /\ [][NextSubscribe]_vars

\* ------------------------------------------------------------------------
\* The subscription helpers of database.py, called in any order
\* ------------------------------------------------------------------------
\* The add_subscription / deactivate_subscription calls of one behaviour.
MaxDbCalls == 4

EmailB == <<"b", "@", "x", ".", "org">>

\* The preferences a caller hands to add_subscription.
Preferences ==
    {[language |-> "en", genres |-> <<"fantasy">>, books |-> <<TitleA, TitleB>>,
      familiarity |-> 1],
     [language |-> "zh", genres |-> <<"mystery">>, books |-> <<TitleC, TitleD>>,
      familiarity |-> 4]}

\* deactivate_subscription(token) on the table rows: the UPDATE of the
\* active rows that carry the token, and whether it updated a row.
deactivate_subscription(rows, token) ==
    [rows |-> [i \in 1..Len(rows) |->
                  IF rows[i].unsubscribe_token = token /\ rows[i].active = 1
                  THEN [rows[i] EXCEPT !.active = 0]
                  ELSE rows[i]],
     updated |-> \E i \in 1..Len(rows) :
                    rows[i].unsubscribe_token = token /\ rows[i].active = 1]

DbCall(op, email, pf, token, st, updated, n) ==
    [op |-> op, email |-> email, prefs |-> pf, token |-> token, st |-> st,
     updated |-> updated, n |-> n]

\* add_subscription(email, language, genres, books, familiarity): the
\* token is a uuid4 drawn at entry, whatever the call then does.
AddSubscription ==
    /\ db_call.n < MaxDbCalls
    /\ \E email \in {EmailA, EmailB}, pf \in Preferences :
          \E out \in {add_subscription(subscriptions, next_token, email, pf.language,
                                       pf.genres, pf.books, pf.familiarity)} :
              /\ subscriptions' = out.rows
              /\ next_token' = next_token + 1
              /\ db_call' = DbCall("add", email, pf, out.token, out.st, FALSE,
                                   db_call.n + 1)
    /\ UNCHANGED <<_scheduler, instances, scheduler_calls>>

\* deactivate_subscription(token) with a token handed out earlier, or one
\* that never was (0).
DeactivateSubscription ==
    /\ db_call.n < MaxDbCalls
    /\ \E token \in 0..(next_token - 1) :
          \E out \in {deactivate_subscription(subscriptions, token)} :
              /\ subscriptions' = out.rows
              /\ db_call' = DbCall("deactivate", <<>>, <<>>, token, "ok", out.updated,
                                   db_call.n + 1)
    /\ UNCHANGED <<next_token, _scheduler, instances, scheduler_calls>>

NextDatabase ==
    /\ AddSubscription \/ DeactivateSubscription
    /\ UNCHANGED service_frame

SpecDatabase == Init /\ [][NextDatabase]_vars

\* ------------------------------------------------------------------------
\* start_scheduler and stop_scheduler, called in any order
\* ------------------------------------------------------------------------
\* The start_scheduler / stop_scheduler calls of one behaviour.
MaxSchedulerCalls == 6

JOB_ID == "scheduled_recommendations"

\* BackgroundScheduler(daemon=True): no job, not started.
BackgroundScheduler == [running |-> FALSE, jobs |-> <<>>]

\* scheduler.add_job(..., id=id, replace_existing=TRUE): a job of that id
\* is replaced, not added a second time.
add_job(scheduler, id) ==
    IF \E i \in 1..Len(scheduler.jobs) : scheduler.jobs[i] = id
    THEN scheduler
    ELSE [scheduler EXCEPT !.jobs = Append(@, id)]

StartSchedulerUnguarded ==
    /\ Len(scheduler_calls) < MaxSchedulerCalls
    /\ scheduler_calls' = Append(scheduler_calls, "start")
    /\ instances' = Append(instances,
                           [add_job(BackgroundScheduler, JOB_ID) EXCEPT !.running = TRUE])
    /\ _scheduler' = Len(instances) + 1
    /\ UNCHANGED <<db_call, subscriptions, next_token>>

\* start_scheduler(): returns at once if _scheduler is not None; otherwise
\* creates the scheduler, registers the daily job and starts it.
StartScheduler ==
    /\ Len(scheduler_calls) < MaxSchedulerCalls
    /\ scheduler_calls' = Append(scheduler_calls, "start")
    /\ IF _scheduler # 0
       THEN UNCHANGED <<_scheduler, instances>>
       ELSE /\ instances' = Append(instances,
                                   [add_job(BackgroundScheduler, JOB_ID)
                                       EXCEPT !.running = TRUE])
            /\ _scheduler' = Len(instances) + 1
    /\ UNCHANGED <<db_call, subscriptions, next_token>>

\* stop_scheduler(): shuts the scheduler down and forgets it, if there is
\* one.
StopScheduler ==
    /\ Len(scheduler_calls) < MaxSchedulerCalls
    /\ scheduler_calls' = Append(scheduler_calls, "stop")
    /\ IF _scheduler # 0
       THEN /\ instances' = [instances EXCEPT ![_scheduler].running = FALSE]
            /\ _scheduler' = 0
       ELSE UNCHANGED <<_scheduler, instances>>
    /\ UNCHANGED <<db_call, subscriptions, next_token>>

NextScheduler ==
    /\ StartScheduler \/ StopScheduler
    /\ UNCHANGED service_frame

SpecScheduler == Init /\ [][NextScheduler]_vars

\* ------------------------------------------------------------------------
\* The three orchestrators, each as its own source has it, run on the same
\* call_llm results and the same exclusion list
\* ------------------------------------------------------------------------
\* What call_llm returns at one attempt: None, or the text.
NoResponse == <<"None", <<>>>>

TextResponse(body) == <<"text", body>>

\* How an orchestrator ended: what it returned (or that an exception left
\* it) and how many times it had called call_llm.
Ended(ret, calls) == [ret |-> ret, calls |-> calls]

\* One iteration, the n-th, of the loop of cli.generate_recommendations
\* on the call_llm result resp: a failed layer continues if
\* n < MAX_RETRIES and otherwise breaks out of the loop, after which the
\* function returns None. Unset stands for "the loop goes on".
generate_recommendations(resp, already_, n) ==
    LET failed == IF n < MAX_RETRIES THEN Ended(Unset, n) ELSE Ended(RetNone, n)
        on_kept(kept) ==
            IF kept = <<>> THEN failed ELSE Ended(RetList(kept), n)
        on_final(final_) ==
            IF final_.st = "raise" THEN Ended(RetRaise, n)
            ELSE IF final_.st = "None" THEN failed
            ELSE on_kept(filter_duplicates(final_.recs, already_))
        on_parsed(parsed) ==
            IF ~parsed.ok THEN failed
            ELSE on_final(validate_recommendations(parsed.val))
    IN IF resp = NoResponse THEN failed
       ELSE on_parsed(parse_llm_output(resp[2]))

\* One iteration of the loop of web.api_recommend: a failed layer
\* continues; when range(1, max_retries + 1) is used up the view answers
\* 500 (failure).
api_recommend(resp, exclude_, n) ==
    LET continue == IF n + 1 > max_retries THEN Ended(RetNone, n) ELSE Ended(Unset, n)
        on_kept(kept) ==
            IF kept = <<>> THEN continue ELSE Ended(RetList(kept), n)
        on_final(final_) ==
            IF final_.st = "raise" THEN Ended(RetRaise, n)
            ELSE IF final_.st = "None" THEN continue
            ELSE on_kept(filter_duplicates(final_.recs, exclude_))
        on_parsed(parsed) ==
            IF ~parsed.ok THEN continue
            ELSE on_final(validate_recommendations(parsed.val))
    IN IF resp = NoResponse THEN continue
       ELSE on_parsed(parse_llm_output(resp[2]))

\* inline_filter with the titles compared as written.
inline_filter_exact(final_, exclude_) ==
    IF exclude_ # <<>>
    THEN SelectSeq(final_, LAMBDA r :
            Val(Val(r)[Word("title")]) \notin {exclude_[i] : i \in 1..Len(exclude_)})
    ELSE final_

\* scheduler.py: if exclude: seen = {...}; final = [r for r in final if
\* r["title"].strip().lower() not in seen]
inline_filter(final_, exclude_) ==
    IF exclude_ # <<>>
    THEN LET seen == {lower(strip(exclude_[i])) : i \in 1..Len(exclude_)} IN
         SelectSeq(final_, LAMBDA r : lower(strip(Val(Val(r)[Word("title")]))) \notin seen)
    ELSE final_

\* One iteration of the loop of scheduler._generate_for_subscriber: a
\* failed layer continues, a non-empty filtered list is returned, and
\* after range(1, MAX_ATTEMPTS + 1) the function returns None.
_generate_for_subscriber(resp, exclude_, n) ==
    LET continue == IF n + 1 > MAX_ATTEMPTS THEN Ended(RetNone, n) ELSE Ended(Unset, n)
        on_kept(kept) ==
            IF kept # <<>> THEN Ended(RetList(kept), n) ELSE continue
        on_final(final_) ==
            IF final_.st = "raise" THEN Ended(RetRaise, n)
            ELSE IF final_.st = "None" THEN continue
            ELSE on_kept(inline_filter(final_.recs, exclude_))
        on_parsed(parsed) ==
            IF ~parsed.ok THEN continue
            ELSE on_final(validate_recommendations(parsed.val))
    IN IF resp = NoResponse THEN continue
       ELSE on_parsed(parse_llm_output(resp[2]))

\* What call_llm may return at an attempt: None, a valid payload, a payload
\* with an element that is not an object, text without JSON, and an object
\* without a list.
AttemptResponses ==
    {NoResponse, TextResponse(Good3),
     TextResponse(PayloadText(<<Book(TitleA), Book(TitleB), Book(TitleC), <<"7">> >>)),
     TextResponse(<<"sorry">>),
     TextResponse(<<"{">> \o Member("recommendations", <<"null">>) \o <<"}">>)}

InitEquivalence ==
    /\ threads = {}
    /\ InitLocals
    /\ InitValidator
    /\ IdleCall
    /\ IdleParse
    /\ IdlePrompt
    /\ IdleSession
    /\ IdleJob
    /\ IdleSubscribe
    /\ IdleService
    /\ responses \in [1..MAX_RETRIES -> AttemptResponses]
    /\ exclusion \in Exclusions
    /\ by_cli = Ended(Unset, 0)
    /\ by_web = Ended(Unset, 0)
    /\ by_scheduler = Ended(Unset, 0)

\* The next iteration of each orchestrator; already = already_recommended
\* or [] in the CLI.
CliAttempt ==
    /\ by_cli.ret = Unset
    /\ \E out \in {generate_recommendations(responses[by_cli.calls + 1],
                                             IF exclusion = <<>> THEN <<>> ELSE exclusion,
                                             by_cli.calls + 1)} :
          by_cli' = out
    /\ UNCHANGED <<responses, exclusion, by_web, by_scheduler>>

WebAttempt ==
    /\ by_web.ret = Unset
    /\ \E out \in {api_recommend(responses[by_web.calls + 1], exclusion,
                                  by_web.calls + 1)} :
          by_web' = out
    /\ UNCHANGED <<responses, exclusion, by_cli, by_scheduler>>

SchedulerAttempt ==
    /\ by_scheduler.ret = Unset
    /\ \E out \in {_generate_for_subscriber(responses[by_scheduler.calls + 1], exclusion,
                                             by_scheduler.calls + 1)} :
          by_scheduler' = out
    /\ UNCHANGED <<responses, exclusion, by_cli, by_web>>

NextEquivalence ==
    /\ CliAttempt \/ WebAttempt \/ SchedulerAttempt
    /\ UNCHANGED equivalence_frame

SpecEquivalence == InitEquivalence /\ [][NextEquivalence]_vars

\* ------------------------------------------------------------------------
\* validate_recommendation applied to one rec
\* ------------------------------------------------------------------------
Dict4(title, author, year, explanation) ==
    (Word("title") :> title) @@ (Word("author") :> author)
        @@ (Word("publication_year") :> year) @@ (Word("explanation") :> explanation)

TitleValues == {JStr(TitleA), JStr(TitleA2), JStr(<<" ">>), JStr(<<>>), JInt(7), JNull}

AuthorValues == {JStr(<<"x">>), JStr(<<" ", "\n">>), JNull}

YearValues ==
    {JInt(IntOfNumeral(n)) : n \in IntNumerals}
        \cup {JFloat(n) : n \in FloatNumerals}
        \cup {JStr(<<"1999">>), JStr(<<" ", "2026", " ">>), JStr(<<"2100">>),
              JStr(<<"1999.5">>), JStr(<<"x">>), JStr(<<>>), JNull, JBool(TRUE),
              JArr(<<JInt(1999)>>)}

ExplanationValues ==
    {JStr(Expl10), JStr(Expl9), JStr(Expl1000), JStr(Expl1001), JStr(<<" ">>), JInt(7)}

FullDicts ==
    {Dict4(t, a, y, e) : t \in TitleValues, a \in AuthorValues, y \in YearValues,
                         e \in ExplanationValues}

ValidDict == Dict4(JStr(TitleA), JStr(<<"x">>), JInt(1925), JStr(Expl10))

\* A dict that lacks one or more of the four fields.
PartialDicts ==
    {[key \in keys |-> ValidDict[key]] : keys \in (SUBSET DOMAIN ValidDict) \ {DOMAIN ValidDict}}

NonDicts ==
    {JInt(7), JNull, JBool(TRUE), JFloat("1999.5"), JStr(TitleA),
     JStr(<<"title", "author", "publication_year", "explanation">>),
     JArr(<<JInt(7), JStr(Word("title"))>>),
     JArr(<<JStr(Word("title")), JStr(Word("author")), JStr(Word("publication_year")),
            JStr(Word("explanation"))>>)}

Items == {JObj(d) : d \in FullDicts \cup PartialDicts} \cup NonDicts

InitItem ==
    /\ threads = {}
    /\ InitLocals
    /\ item \in Items
    /\ verdict = "unset"
    /\ payload = <<>>
    /\ outcome = Unset
    /\ IdleUnits

ValidateItem ==
    /\ verdict = "unset"
    /\ verdict' = validate_recommendation(item)
    /\ UNCHANGED <<pipeline_vars, item, payload, outcome, unit_vars>>

NextItem == ValidateItem

SpecItem == InitItem /\ [][NextItem]_vars

\* ------------------------------------------------------------------------
\* validate_recommendations applied to a payload
\* ------------------------------------------------------------------------
MaxPayload == 6

PositionTitles == <<TitleA, TitleB, TitleC, TitleD, TitleE, TitleF, <<"g">>, <<"h">>>>

\* The year the model writes for the candidate at position i: an integer,
\* a numeric string, a fractional number, and the bounds of the range.
PositionYear(i) ==
    CASE i % 5 = 1 -> JInt(1925)
      [] i % 5 = 2 -> JStr(<<"1999">>)
      [] i % 5 = 3 -> JFloat("1999.5")
      [] i % 5 = 4 -> JInt(1450)
      [] OTHER -> JInt(2026)

\* The candidate at position i of the given shape: "fresh" is valid with a
\* title of its own, "repeat" is valid and repeats the first title in
\* another case and spacing, "defect" fails per-item validation, "scalar"
\* is not an object.
Candidate(i, shape) ==
    CASE shape = "fresh" ->
            JObj(Dict4(JStr(PositionTitles[i]), JStr(<<"x">>), PositionYear(i), JStr(Expl10)))
      [] shape = "repeat" ->
            JObj(Dict4(JStr(TitleA2), JStr(<<"y">>), JInt(2026), JStr(Expl1000)))
      [] shape = "defect" ->
            JObj(Dict4(JStr(IF i % 3 = 0 THEN <<" ">> ELSE PositionTitles[i]),
                       JStr(<<"x">>),
                       IF i % 3 = 1 THEN JInt(1300) ELSE JInt(1925),
                       JStr(IF i % 3 = 2 THEN Expl9 ELSE Expl10)))
      [] shape = "scalar" -> JInt(7)

Shapes == {"fresh", "repeat", "defect", "scalar"}

\* parsed dicts whose "recommendations" is missing or not a list
MalformedPayloads ==
    {JObj(EmptyDict), JObj(Word("recommendations") :> JNull),
     JObj(Word("recommendations") :> JStr(TitleA)),
     JObj(Word("books") :> JArr(<<JObj(ValidDict)>>))}

InitValidate ==
    /\ threads = {}
    /\ InitLocals
    /\ InitValidator
    /\ IdleUnits

AddCandidate ==
    /\ outcome = Unset
    /\ Len(payload) < MaxPayload
    /\ \E shape \in Shapes : payload' = Append(payload, Candidate(Len(payload) + 1, shape))
    /\ UNCHANGED <<pipeline_vars, item, verdict, outcome, unit_vars>>

ValidatePayload ==
    /\ outcome = Unset
    /\ outcome' = validate_recommendations(JObj(Word("recommendations") :> JArr(payload)))
    /\ UNCHANGED <<pipeline_vars, item, verdict, payload, unit_vars>>

ValidateMalformed ==
    /\ outcome = Unset
    /\ payload = <<>>
    /\ \E parsed \in MalformedPayloads :
          /\ item' = parsed
          /\ outcome' = validate_recommendations(parsed)
    /\ UNCHANGED <<pipeline_vars, verdict, payload, unit_vars>>

NextValidate == AddCandidate \/ ValidatePayload \/ ValidateMalformed

SpecValidate == InitValidate /\ [][NextValidate]_vars

\* ------------------------------------------------------------------------
\* Properties
\* ------------------------------------------------------------------------
Returned(p) == pc[p] = "done"

Succeeded(p) == pc[p] = "done" /\ result[p].st = "list"

\* The elements of the "recommendations" list in the object that
\* parse_llm_output finds in text (<<>> when there is none).
PayloadElements(text) ==
    LET parsed == parse_llm_output(text) IN
    IF ~parsed.ok \/ Word("recommendations") \notin DOMAIN Val(parsed.val) THEN <<>>
    ELSE LET got == Val(parsed.val)[Word("recommendations")] IN
         IF Kind(got) = "arr" THEN Val(got) ELSE <<>>

\* The title of a recommendation, trimmed and lowered.
NormTitle(r) == lower(strip(Val(Val(r)[Word("title")])))

\* C1: whenever an orchestrator returns success, the returned list holds at
\* least 3 and at most 5 recommendations.
C1_SuccessHasThreeToFive ==
    \A p \in Threads :
        Succeeded(p) => Len(result[p].recs) >= 3 /\ Len(result[p].recs) <= 5

\* C2: the orchestrator fails closed. Every item of a returned list is an
\* element of the payload of the attempt that returned it and passed
\* per-item validation; a failure is the bare signal None, returned only
\* after the last attempt; nothing else is ever returned.
C2_FailsClosed ==
    \A p \in Threads :
        Returned(p) =>
            /\ result[p].st \in {"list", "None"}
            /\ result[p].st = "list" =>
                  /\ result[p].recs # <<>>
                  /\ \A i \in 1..Len(result[p].recs) :
                        /\ \E j \in 1..Len(PayloadElements(raw[p])) :
                              PayloadElements(raw[p])[j] = result[p].recs[i]
                        /\ validate_recommendation(result[p].recs[i]) = "True"
            /\ result[p].st = "None" =>
                  /\ result[p].recs = <<>>
                  /\ attempt[p] = AttemptCeiling(kind[p])

\* A list is returned by an attempt that follows a failed one.
C2_Witness ==
    \E p \in Threads : Succeeded(p) /\ attempt[p] > 1 /\ final[p] = result[p]

\* C3: validate_recommendations never returns a list with fewer than 3 or
\* more than 5 items, and returns None whenever fewer than 3 distinct
\* normalised titles are found among the valid candidates of the payload.
C3_Cardinality ==
    /\ outcome.st = "list" => Len(outcome.recs) >= 3 /\ Len(outcome.recs) <= 5
    /\ ( /\ outcome.st \in {"list", "None"}
         /\ Cardinality({NormTitle(payload[i]) :
                            i \in {j \in 1..Len(payload) :
                                      validate_recommendation(payload[j]) = "True"}}) < 3 )
       => outcome.st = "None"

\* Six valid candidates with distinct titles were validated.
C3_Witness ==
    /\ outcome.st = "list"
    /\ Len(payload) = 6
    /\ \A i \in 1..6 : validate_recommendation(payload[i]) = "True"
    /\ Cardinality({NormTitle(payload[i]) : i \in 1..6}) = 6

\* C4: no error escapes the orchestrator, whatever the raw model output.
C4_NoErrorEscapes ==
    \A p \in Threads : pc[p] # "raised"

\* C5: when every call_llm of an invocation returned text and every parse
\* of it failed, the orchestrator ends with exhaustion after exactly
\* MAX_RETRIES attempts, MAX_RETRIES call_llm invocations and MAX_RETRIES
\* parses; it never makes more attempts, calls or parses than that.
C5_ExactlyMaxRetries ==
    \A p \in Threads :
        /\ attempt[p] <= 3 /\ n_calls[p] <= 3 /\ n_parses[p] <= 3
        /\ ( /\ Returned(p)
             /\ n_parses[p] = n_calls[p]
             /\ n_unparsed[p] = n_parses[p] )
           => /\ attempt[p] = 3
              /\ n_calls[p] = 3
              /\ n_parses[p] = 3
              /\ result[p] = RetNone

\* Three texts were returned and none could be parsed.
C5_Witness ==
    \E p \in Threads : Returned(p) /\ n_unparsed[p] = 3 /\ n_calls[p] = 3

\* C6: no returned item has a title that, trimmed and lowered, equals the
\* trimmed and lowered form of an entry of the exclusion list, and every
\* item validated in the returning attempt whose title is not excluded is
\* in the returned list.
C6_ExcludedNeverReturned ==
    \A p \in Threads :
        Succeeded(p) =>
            /\ \A i \in 1..Len(result[p].recs), j \in 1..Len(already[p]) :
                  NormTitle(result[p].recs[i]) # lower(strip(already[p][j]))
            /\ \A i \in 1..Len(validated[p].recs) :
                  (\A j \in 1..Len(already[p]) :
                      NormTitle(validated[p].recs[i]) # lower(strip(already[p][j])))
                  => \E n \in 1..Len(result[p].recs) :
                        result[p].recs[n] = validated[p].recs[i]

\* An excluded title written in another case was removed and the rest returned.
C6_Witness ==
    \E p \in Threads :
        /\ Succeeded(p)
        /\ Len(result[p].recs) < Len(validated[p].recs)
        /\ \E i \in 1..Len(validated[p].recs), j \in 1..Len(already[p]) :
              /\ NormTitle(validated[p].recs[i]) = lower(strip(already[p][j]))
              /\ Val(Val(validated[p].recs[i])[Word("title")]) # already[p][j]

\* C7: the titles validate_recommendations returns are pairwise distinct
\* after trimming and lowering, and each returned item is the first valid
\* candidate of the payload with its normalised title.
C7_FirstOfEachTitleKept ==
    outcome.st = "list" =>
        /\ \A i, j \in 1..Len(outcome.recs) :
              i # j => NormTitle(outcome.recs[i]) # NormTitle(outcome.recs[j])
        /\ \A i \in 1..Len(outcome.recs) :
              \E j \in 1..Len(payload) :
                  /\ payload[j] = outcome.recs[i]
                  /\ \A n \in 1..(j - 1) :
                        validate_recommendation(payload[n]) = "True"
                        => NormTitle(payload[n]) # NormTitle(payload[j])

\* A later candidate that differs from an earlier one only by case and
\* surrounding whitespace of the title was validated and discarded.
C7_Witness ==
    /\ outcome.st = "list"
    /\ \E i, j \in 1..Len(payload) :
          /\ i < j /\ j <= 5
          /\ validate_recommendation(payload[i]) = "True"
          /\ validate_recommendation(payload[j]) = "True"
          /\ NormTitle(payload[i]) = NormTitle(payload[j])
          /\ Val(Val(payload[i])[Word("title")]) # Val(Val(payload[j])[Word("title")])

\* C8: every recommendation validate_recommendations returns carries an
\* integer publication_year within [1450, 2026] and a title and an author
\* that are non-empty strings after trimming.
C8_YearIsInteger ==
    outcome.st = "list" =>
        \A i \in 1..Len(outcome.recs) :
            LET r == Val(outcome.recs[i]) IN
            /\ Kind(r[Word("publication_year")]) = "int"
            /\ Val(r[Word("publication_year")]) >= 1450
            /\ Val(r[Word("publication_year")]) <= 2026
            /\ Kind(r[Word("title")]) = "str" /\ strip(Val(r[Word("title")])) # <<>>
            /\ Kind(r[Word("author")]) = "str" /\ strip(Val(r[Word("author")])) # <<>>

\* The rec is a dict whose title, author and explanation are valid.
OtherFieldsValid(rec) ==
    /\ Kind(rec) = "obj"
    /\ DOMAIN Val(rec) = {Word(REQUIRED_FIELDS[i]) : i \in 1..Len(REQUIRED_FIELDS)}
    /\ \A f \in {"title", "author", "explanation"} :
          Kind(Val(rec)[Word(f)]) = "str" /\ strip(Val(Val(rec)[Word(f)])) # <<>>
    /\ py_len(Val(Val(rec)[Word("explanation")])) >= 10
    /\ py_len(Val(Val(rec)[Word("explanation")])) <= 1000

C10_OwnLanguagePrompt ==
    \A p \in Threads :
        pc[p] \in {"call", "process", "done", "raised"}
        => system_prompt[p] = (IF lang[p] = "zh" THEN "_SYSTEM_PROMPT_ZH"
                               ELSE "_SYSTEM_PROMPT_EN")

\* The service's answer r gave call_llm no text: an exception, or an empty
\* or whitespace-only body.
NoText(r) == r[1] = "raise" \/ strip(r[2]) = <<>>

\* C11: call_llm makes at most MAX_RETRIES (3) requests; it requests again
\* after an exception and after an empty or whitespace-only body, returns
\* the first non-empty body without a further request, and returns None
\* exactly when all 3 requests failed.
C11_CallLlmRetries ==
    /\ Len(log) <= 3
    /\ \A i \in 1..(Len(log) - 1) : NoText(log[i])
    /\ returned[1] = "pending" => Len(log) < 3 /\ \A i \in 1..Len(log) : NoText(log[i])
    /\ returned[1] = "text" =>
          /\ log # <<>>
          /\ log[Len(log)] = <<"body", returned[2]>>
          /\ ~NoText(log[Len(log)])
    /\ returned[1] = "None" <=> (Len(log) = 3 /\ \A i \in 1..3 : NoText(log[i]))

\* An exception, an empty body and a whitespace-only body made call_llm
\* return None.
C11_Witness ==
    /\ returned[1] = "None"
    /\ \E i, j, k \in 1..Len(log) :
          log[i][1] = "raise" /\ log[j] = <<"body", <<>>>> /\ log[k] = <<"body", <<" ", "\n">>>>

\* The elements of the "recommendations" list of the JSON object that text
\* is (<<>> when text is not such an object).
WrittenCandidates(text) ==
    LET r == json_loads(text) IN
    IF ~IsDict(r) \/ Word("recommendations") \notin DOMAIN Val(r.val) THEN <<>>
    ELSE LET got == Val(r.val)[Word("recommendations")] IN
         IF Kind(got) = "arr" THEN Val(got) ELSE <<>>

\* text is a well-formed JSON object whose "recommendations" are 3 to 5
\* valid candidates with pairwise distinct normalised titles, none of them
\* in the exclusion list excluded.
WellFormedOutput(text, excluded) ==
    LET cands == WrittenCandidates(text) IN
    /\ Len(cands) >= 3 /\ Len(cands) <= 5
    /\ \A i \in 1..Len(cands) : validate_recommendation(cands[i]) = "True"
    /\ \A i, j \in 1..Len(cands) : i # j => NormTitle(cands[i]) # NormTitle(cands[j])
    /\ \A i \in 1..Len(cands), j \in 1..Len(excluded) :
          NormTitle(cands[i]) # lower(strip(excluded[j]))

\* C12: when the raw output of the first attempt is a well-formed JSON
\* object with n valid candidates (3 <= n <= 5) of distinct titles, none
\* excluded, the orchestrator returns exactly those candidates, in order,
\* at the end of that first attempt.
C12_HappyPath ==
    [][\A p \in Threads :
          (pc[p] = "process" /\ attempt[p] = 1 /\ WellFormedOutput(raw[p], already[p]))
          => /\ pc'[p] = "done"
             /\ attempt'[p] = 1
             /\ result'[p] = RetList(WrittenCandidates(raw[p]))]_vars

\* C13: a JSON object text wrapped in a markdown code fence (the opening
\* fence with or without a language tag) parses to the same result as the
\* text alone.
C13_FenceTolerance ==
    variant = "fence-parsed" => parse_wrapped = parse_plain

\* A fenced object with the tag json was parsed to an object.
C13_Witness ==
    /\ variant = "fence-parsed"
    /\ parse_wrapped.ok
    /\ SubSeq(wrapped, 1, 2) = <<FENCE, "json">>
    /\ wrapped[Len(wrapped)] = FENCE

\* C14: a JSON object text between a prefix and a suffix that hold no
\* brace parses to the same result as the text alone.
C14_BraceExtraction ==
    variant = "prose-parsed" => parse_wrapped = parse_plain

\* An object with prose before and after it was parsed to an object.
C14_Witness ==
    /\ variant = "prose-parsed"
    /\ parse_wrapped.ok
    /\ wrapped[1] = "Sure"
    /\ wrapped[Len(wrapped)] = "Sure"

\* C15: an object text whose only defect is one trailing comma before the
\* closing bracket of its innermost array parses to an object, and that
\* object is the one the text without the comma parses to.
C15_TrailingCommaRepair ==
    variant = "comma-parsed" => parse_wrapped.ok /\ parse_wrapped = parse_plain

\* The lines of txt: the runs of symbols between its newlines.
RECURSIVE LinesOf(_, _, _)
LinesOf(txt, i, line) ==
    IF i > Len(txt) THEN <<line>>
    ELSE IF txt[i] = "\n" THEN <<line>> \o LinesOf(txt, i + 1, <<>>)
    ELSE LinesOf(txt, i + 1, Append(line, txt[i]))

\* C16: with a non-empty exclusion list the prompt holds, after the three
\* preference lines and before the closing sentence, a do-not-recommend
\* block that lists every excluded title verbatim, one per line, in the
\* given order; with an empty list or None the block is absent.
C16_ExclusionBlock ==
    user_prompt # <<>> =>
        LET lines == LinesOf(user_prompt, 1, <<>>)
            titles == exclude[2]
            n == Len(titles)
        IN  /\ lines[1][1] = GENRES_LEAD
            /\ lines[2][1] = BOOKS_LEAD
            /\ lines[3][1] = FAMILIARITY_LEAD
            /\ lines[Len(lines)] = <<CLOSING>>
            /\ IF exclude[1] = "list" /\ n > 0
               THEN /\ Len(lines) = n + 7
                    /\ lines[5] = <<EXCLUDE_HEADER>>
                    /\ \A k \in 1..n : lines[5 + k] = <<BULLET>> \o titles[k]
               ELSE /\ Len(lines) = 5
                    /\ \A i \in 1..Len(user_prompt) :
                          user_prompt[i] \notin {EXCLUDE_HEADER, BULLET}

\* A prompt was built for a list of several titles, one of them twice.
C16_Witness ==
    /\ user_prompt # <<>>
    /\ exclude = <<"list", <<TitleC, TitleA, TitleC>>>>

\* s1 \o s2 \o ... for the sequence of sequences ss
RECURSIVE Flatten(_)
Flatten(ss) == IF ss = <<>> THEN <<>> ELSE Head(ss) \o Flatten(Tail(ss))

\* C17: across the rounds of one CLI session the exclusion list grows only
\* by the titles of a successful round, no round returns a title whose
\* trimmed, lowered form is that of a title an earlier round returned, and
\* a failed round ends the session and leaves the list as it was.
C17_SessionExclusion ==
    /\ [](/\ already_recommended = Flatten(rounds)
          /\ \A i, j \in 1..Len(rounds) :
                i < j => \A m \in 1..Len(rounds[i]), n \in 1..Len(rounds[j]) :
                            lower(strip(rounds[i][m])) # lower(strip(rounds[j][n])))
    /\ [][/\ already_recommended' # already_recommended
             => /\ pc[1] = "done" /\ result[1].st = "list"
                /\ already_recommended' = already_recommended \o TitlesOf(result[1].recs)
          /\ (pc[1] = "done" /\ result[1].st = "None")
             => session_pc' = "over" /\ already_recommended' = already_recommended
          /\ session_pc = "over" => session_pc' = "over" /\ pc' = pc]_vars

\* A second round returned only the titles the first had not returned: one
\* candidate repeated a first-round title in another case and spacing.
C17_Witness ==
    /\ Len(rounds) >= 2
    /\ Len(rounds[1]) = 3
    /\ Len(rounds[2]) = 2
    /\ already_recommended = rounds[1] \o rounds[2]

\* C18: the job writes history for a subscriber only when generation
\* returned a list and the send returned True, and then exactly the titles
\* of that list; when generation returned None or the send failed nothing
\* is written and the job goes on to the next subscriber.
C18_HistoryAfterSend ==
    [][/\ history' # history
          => /\ job_pc = "generating" /\ pc[1] = "done" /\ result[1].st = "list"
             /\ sent'
             /\ history' = Append(history, <<subscribers[sub_index].id,
                                             TitlesOf(result[1].recs)>>)
       /\ (job_pc = "generating" /\ pc[1] = "done"
             /\ (result[1].st = "None" \/ ~sent'))
          => /\ history' = history
             /\ sub_index' = sub_index + 1
             /\ job_pc' = "next"]_vars

\* Two subscribers were due; the first got no history row (no result, or
\* the send failed) and the second one's titles were written.
C18_Witness ==
    /\ job_pc = "finished"
    /\ dispatched = {1, 2}
    /\ sent_count = 1
    /\ history = << <<2, <<TitleA, TitleB, TitleC>>>> >>

\* C19: the job processes each active subscriber according to the
\* frequency that subscriber chose: daily on every run, weekly only on a
\* Monday, monthly only on the 1st of the month.
C19_ChosenFrequency ==
    job_pc = "finished" =>
        \A i \in 1..Len(subscribers) :
            subscribers[i].id \in dispatched
            <=> CASE chosen[subscribers[i].id] = "daily" -> TRUE
                  [] chosen[subscribers[i].id] = "weekly" -> today.weekday = 0
                  [] chosen[subscribers[i].id] = "monthly" -> today.day = 1

\* C20: a POST /api/subscribe whose body passes every validation step
\* (it is not answered 400) is answered 201 with the unsubscribe token,
\* an active subscription with the requested preferences and that token
\* being stored, or, if the email is already actively subscribed, 409.
C20_SubscribeStores ==
    response.status \notin {0, 400} =>
        LET email == lower(strip(DictGet(data, "email", <<>>))) IN
        \/ /\ response.status = 201
           /\ \E i \in 1..Len(subscriptions) :
                 /\ subscriptions[i].email = email
                 /\ subscriptions[i].active = 1
                 /\ subscriptions[i].unsubscribe_token = response.token
                 /\ subscriptions[i].language = DictGet(data, "language", "en")
                 /\ subscriptions[i].books = Val(data.books)
                 /\ subscriptions[i].familiarity = py_int(data.familiarity).n
           /\ next_token # 1
        \/ /\ response.status = 409
           /\ \E i \in 1..Len(subscriptions) :
                 /\ subscriptions[i].email = email
                 /\ subscriptions[i].active = 1
                 /\ subscriptions[i].unsubscribe_token # next_token - 1

\* C21: after any sequence of add_subscription and deactivate_subscription
\* calls there is at most one row per email; add_subscription on an email
\* whose row is active raises ValueError and leaves the table unchanged;
\* on an email whose row is inactive it reactivates that row with the new
\* preferences and a token no row carried before; and a deactivation with
\* a token that no active row carries (a superseded one) updates nothing.
C21_OneRowPerEmail ==
    /\ [](\A i, j \in 1..Len(subscriptions) :
            subscriptions[i].email = subscriptions[j].email => i = j)
    /\ [][/\ (db_call'.n = db_call.n + 1 /\ db_call'.op = "add")
             => \A i \in 1..Len(subscriptions) :
                   subscriptions[i].email = db_call'.email
                   => IF subscriptions[i].active = 1
                      THEN /\ db_call'.st = "ValueError"
                           /\ subscriptions' = subscriptions
                      ELSE /\ db_call'.st = "ok"
                           /\ subscriptions' =
                                 [subscriptions EXCEPT ![i] =
                                     Row(subscriptions[i].id, db_call'.email,
                                         db_call'.prefs.language, db_call'.prefs.genres,
                                         db_call'.prefs.books,
                                         db_call'.prefs.familiarity,
                                         db_call'.token, 1)]
                           /\ \A k \in 1..Len(subscriptions) :
                                 subscriptions[k].unsubscribe_token # db_call'.token
          /\ (db_call'.n = db_call.n + 1 /\ db_call'.op = "deactivate"
                /\ ~\E i \in 1..Len(subscriptions) :
                       /\ subscriptions[i].unsubscribe_token = db_call'.token
                       /\ subscriptions[i].active = 1)
             => ~db_call'.updated /\ subscriptions' = subscriptions]_vars

\* A row was deactivated and reactivated, and its first token was then
\* tried: the row is still active under the second token.
C21_Witness ==
    /\ db_call.op = "deactivate"
    /\ db_call.token = 1
    /\ ~db_call.updated
    /\ Len(subscriptions) = 1
    /\ subscriptions[1].active = 1
    /\ subscriptions[1].unsubscribe_token # 1
    /\ subscriptions[1].language = "zh"

\* C22: after any sequence of start_scheduler and stop_scheduler calls at
\* most one scheduler instance is live, it is the one _scheduler names and
\* it has exactly one registered job; a start while one is live changes
\* nothing, a stop leaves no live instance and clears _scheduler, and a
\* start with none live creates a fresh running instance with the one job.
C22_SchedulerIdempotent ==
    /\ [](/\ \A i \in 1..Len(instances) : instances[i].running <=> i = _scheduler
          /\ _scheduler # 0 => instances[_scheduler].jobs = <<JOB_ID>>)
    /\ [][/\ (Len(scheduler_calls') = Len(scheduler_calls) + 1
                /\ scheduler_calls'[Len(scheduler_calls')] = "start")
             => IF _scheduler # 0
                THEN _scheduler' = _scheduler /\ instances' = instances
                ELSE /\ _scheduler' = Len(instances) + 1
                     /\ Len(instances') = Len(instances) + 1
                     /\ SubSeq(instances', 1, Len(instances)) = instances
                     /\ instances'[_scheduler'].running
          /\ (Len(scheduler_calls') = Len(scheduler_calls) + 1
                /\ scheduler_calls'[Len(scheduler_calls')] = "stop")
             => /\ _scheduler' = 0
                /\ \A i \in 1..Len(instances') : ~instances'[i].running]_vars

\* start, start, stop, start: the second instance is live and the first
\* is shut down.
C22_Witness ==
    /\ scheduler_calls = <<"start", "start", "stop", "start">>
    /\ _scheduler = 2
    /\ Len(instances) = 2
    /\ ~instances[1].running
    /\ instances[2].running

\* C23: whatever the model answers, the orchestrator makes at most
\* MAX_RETRIES attempts and ends in one of two outcomes: success, at an
\* attempt whose exclusion-filtered result is non-empty (that result is
\* what it returns), or exhaustion, after the third attempt has failed.
C23_TwoTerminalOutcomes ==
    \A p \in threads :
        /\ attempt[p] <= MAX_RETRIES
        /\ pc[p] \notin {"idle", "prompt", "call", "process"}
           => /\ pc[p] = "done"
              /\ \/ /\ result[p].st = "list"
                    /\ result[p].recs # <<>>
                    /\ result[p] = final[p]
                 \/ /\ result[p].st = "None"
                    /\ attempt[p] = MAX_RETRIES

\* The candidates of the payload that validate_recommendations looks at.
FirstFive == SubSeq(payload, 1, IF Len(payload) < 5 THEN Len(payload) ELSE 5)

\* C24: validate_recommendations truncates to the first 5 candidates before
\* per-item validation: what it returns for a payload is what it returns
\* for the first five candidates alone (a later candidate is never
\* validated), every returned item is one of the first five, and a payload
\* whose first five candidates hold fewer than 3 valid distinct titles
\* yields no list even when later candidates are valid.
C24_TruncateBeforeValidation ==
    (outcome # Unset /\ item = JNull) =>
        /\ outcome = validate_recommendations(
                         JObj(Word("recommendations") :> JArr(FirstFive)))
        /\ outcome.st = "list"
              => \A i \in 1..Len(outcome.recs) :
                    \E j \in 1..Len(FirstFive) : FirstFive[j] = outcome.recs[i]
        /\ Cardinality({NormTitle(FirstFive[i]) :
                           i \in {j \in 1..Len(FirstFive) :
                                     validate_recommendation(FirstFive[j]) = "True"}}) < 3
              => outcome.st # "list"

\* The sixth candidate is the third valid one with a title of its own,
\* and the payload failed.
C24_Witness ==
    /\ outcome.st = "None"
    /\ Len(payload) = 6
    /\ validate_recommendation(payload[6]) = "True"
    /\ Cardinality({NormTitle(payload[i]) :
                       i \in {j \in 1..6 : validate_recommendation(payload[j]) = "True"}}) = 3
    /\ \A i \in 1..5 : validate_recommendation(payload[i]) = "True"
                          => NormTitle(payload[i]) # NormTitle(payload[6])

\* C25: parse_llm_output applies its stages in strict order, each only
\* when the one before did not yield an object: the decoding of the
\* fence-stripped text, then of the span from the first "{" to the last
\* "}", then of that span with trailing commas removed; its result is an
\* object or None, never an array or a scalar.
C25_StagesInOrder ==
    variant = "stages-parsed" =>
        LET cleaned == StripFences(wrapped)
            direct == json_loads(cleaned)
            span == BraceSpan(cleaned)
            block == json_loads(span)
            repaired == json_loads(SubTrailingCommas(span))
            first == direct.ok /\ Kind(direct.val) = "obj"
            second == span # <<>> /\ block.ok /\ Kind(block.val) = "obj"
            third == span # <<>> /\ repaired.ok /\ Kind(repaired.val) = "obj"
        IN  /\ parse_wrapped.ok => Kind(parse_wrapped.val) = "obj"
            /\ first => parse_wrapped.ok /\ parse_wrapped.val = direct.val
            /\ (~first /\ second) => parse_wrapped.ok /\ parse_wrapped.val = block.val
            /\ (~first /\ ~second /\ third)
                  => parse_wrapped.ok /\ parse_wrapped.val = repaired.val
            /\ (~first /\ ~second /\ ~third) => parse_wrapped = ParseNone

\* The first stage yielded an object although the third stage would have
\* yielded a different one.
C25_Witness ==
    /\ variant = "stages-parsed"
    /\ parse_wrapped.ok
    /\ parse_wrapped.val = json_loads(StripFences(wrapped)).val
    /\ json_loads(SubTrailingCommas(BraceSpan(StripFences(wrapped)))).ok
    /\ json_loads(SubTrailingCommas(BraceSpan(StripFences(wrapped)))).val
          # parse_wrapped.val

\* C26: the exclusion filter is a pure set difference. What it returns is
\* the subsequence of the list it was given, in the same order, of exactly
\* the items whose trimmed and lowered title is not the trimmed and lowered
\* form of an exclusion entry (the whole list when there is no entry), and
\* the step that filters leaves the exclusion list as it was and the
\* validated list as validate_recommendations returned it.
C26_FilterIsSetDifference ==
    /\ [](\A p \in Threads :
            final[p].st = "list" =>
                /\ validated[p].st = "list"
                /\ final[p].recs =
                      SelectSeq(validated[p].recs,
                                LAMBDA r : \A j \in 1..Len(already[p]) :
                                              NormTitle(r) # lower(strip(already[p][j])))
                /\ already[p] = <<>> => final[p].recs = validated[p].recs)
    /\ [][\A p \in Threads :
             pc[p] = "process" =>
                 /\ already'[p] = already[p]
                 /\ validated'[p] # validated[p]
                       => /\ parse_llm_output(raw[p]).ok
                          /\ validated'[p] =
                                validate_recommendations(parse_llm_output(raw[p]).val)]_vars

\* Two excluded titles were removed from between and after the kept ones.
C26_Witness ==
    \E p \in Threads :
        /\ Succeeded(p)
        /\ Len(already[p]) >= 2
        /\ Len(final[p].recs) >= 2
        /\ Len(final[p].recs) < Len(validated[p].recs)
        /\ final[p].recs[1] = validated[p].recs[2]

\* C27: validate_recommendations repairs nothing. Every item it returns is
\* a candidate of the payload, all its field values as the model gave
\* them; the returned items stand in the order they have in the payload;
\* and no candidate that fails per-item validation is returned, altered or
\* not.
C27_RepairsNothing ==
    (outcome.st = "list" /\ item = JNull) =>
        /\ \A i \in 1..Len(outcome.recs) :
              /\ \E j \in 1..Len(payload) : payload[j] = outcome.recs[i]
              /\ validate_recommendation(outcome.recs[i]) = "True"
        /\ \A i, k \in 1..Len(outcome.recs) :
              i < k => \E j, n \in 1..Len(payload) :
                          /\ j < n
                          /\ payload[j] = outcome.recs[i]
                          /\ payload[n] = outcome.recs[k]
        /\ \A j \in 1..Len(payload) :
              validate_recommendation(payload[j]) = "False"
              => \A i \in 1..Len(outcome.recs) :
                    NormTitle(outcome.recs[i]) # lower(strip(Val(Val(payload[j])[Word("title")])))
                    \/ \E n \in 1..Len(payload) :
                          n # j /\ payload[n] = outcome.recs[i]

\* A year written as a string was returned as a string, and a candidate
\* with a defect that stood between two returned ones was dropped.
C27_Witness ==
    /\ outcome.st = "list"
    /\ \E i \in 1..Len(outcome.recs) :
          Kind(Val(outcome.recs[i])[Word("publication_year")]) = "str"
    /\ \E j \in 2..(Len(payload) - 1) :
          /\ j < 5
          /\ validate_recommendation(payload[j]) = "False"
          /\ \E i \in 1..(Len(outcome.recs) - 1) :
                outcome.recs[i] = payload[j - 1] /\ outcome.recs[i + 1] = payload[j + 1]

\* C28: one orchestrator invocation requests the completion service at
\* most MAX_RETRIES x MAX_RETRIES = 9 times, and exactly 9 times when every
\* request returns an empty body or raises.
C28_AtMostNineRequests ==
    /\ Len(log) <= MAX_RETRIES * MAX_RETRIES
    /\ \A p \in threads :
          (pc[p] \in {"done", "raised"} /\ \A i \in 1..Len(log) : NoText(log[i]))
          => Len(log) = MAX_RETRIES * MAX_RETRIES

\* Nine requests, some raising and some answered with an empty body, and
\* the invocation returned None.
C28_Witness ==
    /\ pc[1] = "done"
    /\ result[1].st = "None"
    /\ Len(log) = 9
    /\ \E i, j \in 1..9 : log[i][1] = "raise" /\ log[j] = <<"body", <<>>>>

\* C29: fence stripping and trailing-comma repair never change the content
\* of a string value. For an object text as the model wrote it, handed to
\* parse_llm_output alone, inside fences or prose, or with a trailing
\* comma, every object returned is the decoding of that text, string
\* contents included (a title that holds a fence marker, or a comma
\* followed by a closing bracket).
C29_StringContentKept ==
    variant \in {"fence-parsed", "prose-parsed", "comma-parsed"} =>
        /\ parse_plain.ok => parse_plain.val = json_loads(json_text).val
        /\ parse_wrapped.ok => parse_wrapped.val = json_loads(json_text).val

\* C30: given the same exclusion list and the same sequence of call_llm
\* results, cli.generate_recommendations, the retry loop of
\* web.api_recommend and scheduler._generate_for_subscriber make the same
\* number of call_llm invocations and end with the same outcome: the same
\* list, or failure.
C30_OrchestratorsEquivalent ==
    (by_cli.ret # Unset /\ by_web.ret # Unset /\ by_scheduler.ret # Unset) =>
        /\ by_cli.calls = by_web.calls
        /\ by_web.calls = by_scheduler.calls
        /\ by_cli.ret = by_web.ret
        /\ by_web.ret = by_scheduler.ret

\* All three returned the same two-item list at the second attempt, after
\* a first attempt whose items were all excluded or that failed.
C30_Witness ==
    /\ by_cli.ret.st = "list"
    /\ by_cli.calls = 2
    /\ by_scheduler.calls = 2
    /\ Len(by_web.ret.recs) = 2
    /\ by_scheduler.ret = by_web.ret
    /\ exclusion # <<>>

====
